---- MODULE Spec2Model ----
(***************************************************************************)
(* A state-machine model of the python-services of this repository:       *)
(*   - MarketDataService   (services/market_data_service.py)              *)
(*   - BacktestingEngine   (services/backtesting_engine.py)               *)
(*   - PortfolioOptimizer  (services/portfolio_optimizer.py)              *)
(*   - RiskManager         (services/risk_manager.py)                     *)
(*   - AITradingEngine     (services/ai_trading_engine.py)                *)
(*   - IndianMarketService (services/indian_market_service.py)            *)
(* Each subsystem has its own next-state relation and specification; the  *)
(* variables of the other subsystems stay unchanged under it.             *)
(***************************************************************************)
EXTENDS Integers, Sequences, FiniteSets, TLC

(***************************************************************************)
(* Bounds of the model (not program constants).                           *)
(***************************************************************************)
\* longest symbol list handed to get_batch_quotes
MaxSymbols == 11
\* fetches of one get_batch_quotes call that may end without a Quote
MaxFailures == 1

\* run_backtest requests that can be in progress at once
MaxRequests == 2
\* identifiers uuid4 can hand out before the model stops starting runs
MaxUuids == 2

\* most rows of a downloaded price history
MaxPriceRows == 32
\* most custom scenarios of a stress test
MaxCustomScenarios == 2
\* most rows of a return series handed to a VaR routine directly
MaxReturns == 3
\* most fallback quotes drawn between two Monte Carlo computations
MaxDraws == 2
\* most assets of a hierarchical risk parity portfolio
MaxAssets == 3
\* most symbols of a trading-signal request
MaxSignalSymbols == 2
\* most registrations in the callback list of one symbol
MaxRegistrations == 2

(***************************************************************************)
(* Program constants.                                                      *)
(***************************************************************************)
\* market_data_service.py:216  batch_size = 10
batch_size == 10
\* market_data_service.py:454  max_age_seconds: int = 60
max_age_seconds == 60
\* market_data_service.py:51   redis.Redis(..., decode_responses=True)
decode_responses == TRUE

Min(a, b) == IF a < b THEN a ELSE b

EmptyMap == [x \in {} |-> x]

(***************************************************************************)
(* Symbols.  Strings are atoms for TLC, so str.upper() is given by its     *)
(* value on every symbol the model uses.                                   *)
(***************************************************************************)
SymbolUniverse == <<"AAPL", "aapl", "MSFT">>
LateSymbols == <<"TSLA", "tsla">>

Upper(s) ==
    CASE s = "aapl" -> "AAPL"
      [] s = "msft" -> "MSFT"
      [] s = "tsla" -> "TSLA"
      [] OTHER -> s

\* the requested lists: the first ten places cycle through SymbolUniverse (so a
\* symbol is asked for several times), the later ones through LateSymbols
SymbolAt(k) ==
    IF k <= batch_size
    THEN SymbolUniverse[((k - 1) % Len(SymbolUniverse)) + 1]
    ELSE LateSymbols[((k - batch_size - 1) % Len(LateSymbols)) + 1]

SymbolList(n) == [k \in 1..n |-> SymbolAt(k)]

VARIABLES
    \* ---- MarketDataService: configuration and the redis quote keys
    alpha_vantage_key,  \* TRUE when ALPHA_VANTAGE_API_KEY is set
    polygon_key,        \* TRUE when POLYGON_API_KEY is set
    redis_quotes,       \* redis: key "quote:<SYMBOL>" -> pickled Quote
    \* ---- one get_batch_quotes call
    bq_pc,              \* "idle" | "gather" | "sleep" | "done" (quotes returned)
    bq_symbols,         \* the argument symbols
    bq_i,               \* the loop variable i
    bq_tasks,           \* the tasks of the current batch, in creation order
    bq_quotes,          \* the local dict quotes
    bq_started,         \* history: positions of symbols whose fetch started
    bq_finished,        \* history: positions of symbols whose fetch ended
    bq_returned,        \* history: symbols for which a fetch returned a Quote
    bq_sleeps,          \* history: rate-limit delays taken by this call
    bq_failed,          \* history: positions whose fetch ended without a Quote
    \* ---- BacktestingEngine
    results_cache,      \* self.results_cache: backtest_id -> cached record
    bt_req,             \* the run_backtest calls: request -> its local state
    bt_issued,          \* history: identifiers uuid4 has handed out
    bt_returned,        \* history: backtest_id -> the record of the run it was returned for
    bt_completed,       \* history: number of runs that returned
    bt_interleaved,     \* history: a run resumed while another was in progress
    bt_get,             \* the last get_backtest_results call and its outcome
    \* ---- the event loop and the tasks on it
    is_running,         \* MarketDataService.is_running
    subscribers,        \* MarketDataService.subscribers: symbol -> list of callbacks
    el_thread,          \* the task that holds the event loop's thread, or "free"
    el_tasks,           \* task -> "none" | "ready" | "in_call" | "sleeping" | "done" | "stopped"
    el_hung,            \* TRUE when the provider call in progress never returns
    \* ---- get_historical_data
    redis_hist,         \* redis: key "hist:<symbol>:<period>:<interval>" -> pickled frame
    hd_last,            \* the last get_historical_data call and its outcome
    \* ---- PortfolioOptimizer
    po_last,            \* the optimize_portfolio call being answered and its outcome
    \* ---- RiskManager
    rm_last,            \* the calculate_var call being answered and its outcome
    \* ---- the simplified service
    sm_last,            \* the last request to the simplified service and its response
    st_last,            \* the last stress_test_portfolio call and its outcome
    hv_last,            \* the last _historical_var call and its outcome
    np_random,          \* numpy's global random generator
    mc_first,           \* an earlier _monte_carlo_var call and its outcome
    mc_last,            \* the last _monte_carlo_var call and its outcome
    hrp_last,           \* the last _hierarchical_risk_parity call and its outcome
    ai_models,          \* AITradingEngine.models: symbol -> the training run of its ensemble
    ai_scalers,         \* AITradingEngine.scalers: symbol -> the training run of its scaler
    ts_last,            \* the last generate_trading_signals call and its outcome
    \* ---- get_real_time_quote called on its own
    gq_prev,            \* the get_real_time_quote call answered before the last one
    gq_last,            \* the get_real_time_quote call being answered and its outcome
    \* ---- the feed loops, from the task lifespan creates to their end
    fd_pc,              \* where _start_yahoo_websocket is
    fd_crypto,          \* where _start_crypto_websocket is
    fd_cleaned,         \* cleanup() has been called
    fd_late,            \* a polling cycle has begun after cleanup()
    fd_obtained,        \* the symbols get_batch_quotes gave a quote for, this cycle
    fd_quotes,          \* the symbols of quotes.items() the for loop has yet to take
    fd_cur,             \* the list iterator of the inner for loop
    fd_stable,          \* (symbol, callback) registered once, untouched since the cycle began
    fd_invoked,         \* (symbol, callback) -> invocations this cycle (2 stands for more)
    fd_op,              \* the subscribe or unsubscribe call being answered
    \* ---- routines called on their own
    ms_last,            \* the _momentum_signal call being answered and its outcome
    im_last             \* the last IndianMarketService.get_real_time_data call and its outcome

mdVars == <<alpha_vantage_key, polygon_key, redis_quotes>>
bqVars == <<bq_pc, bq_symbols, bq_i, bq_tasks, bq_quotes, bq_started,
            bq_finished, bq_returned, bq_sleeps, bq_failed>>
btVars == <<results_cache, bt_req, bt_issued, bt_returned, bt_completed,
            bt_interleaved, bt_get>>

elVars == <<is_running, subscribers, el_thread, el_tasks, el_hung>>
hdVars == <<redis_hist, hd_last>>
poVars == <<po_last>>
rmVars == <<rm_last>>
smVars == <<sm_last>>
stVars == <<st_last>>
hvVars == <<hv_last>>
mcVars == <<np_random, mc_first, mc_last>>
hrpVars == <<hrp_last>>
aiVars == <<ai_models, ai_scalers, ts_last>>
gqVars == <<gq_prev, gq_last>>
msVars == <<ms_last>>
imVars == <<im_last>>
fdVars == <<fd_pc, fd_crypto, fd_cleaned, fd_late, fd_obtained, fd_quotes, fd_cur,
            fd_stable, fd_invoked, fd_op>>
\* the simplified service and the routines called on their own
extVars == <<smVars, stVars, hvVars, mcVars, hrpVars, aiVars, gqVars, fdVars,
            msVars, imVars>>
\* the services a quote batch or a backtest leaves alone
svcVars == <<elVars, hdVars, poVars, rmVars, extVars>>
\* the services of main.py
coreVars == <<mdVars, bqVars, btVars, elVars, hdVars, poVars, rmVars>>
\* everything but the simplified service
OutsideSimple == <<coreVars, stVars, hvVars, mcVars, hrpVars, aiVars, gqVars, fdVars,
    msVars, imVars>>
\* everything but the stress test
OutsideStress == <<coreVars, smVars, hvVars, mcVars, hrpVars, aiVars, gqVars, fdVars,
    msVars, imVars>>
\* everything but the VaR routines called on their own
OutsideHistVar == <<coreVars, smVars, stVars, mcVars, hrpVars, aiVars, gqVars, fdVars,
    msVars, imVars>>
\* everything but the random generator and the Monte Carlo computations
OutsideMonteCarlo == <<coreVars, smVars, stVars, hvVars, hrpVars, aiVars, gqVars, fdVars,
    msVars, imVars>>
\* everything but hierarchical risk parity on numbers
OutsideHrp == <<coreVars, smVars, stVars, hvVars, mcVars, aiVars, gqVars, fdVars,
    msVars, imVars>>
\* everything but the trading engine
OutsideSignals == <<coreVars, smVars, stVars, hvVars, mcVars, hrpVars, gqVars, fdVars,
    msVars, imVars>>
\* everything but the quote cache and the quote calls made on their own
OutsideQuote == <<bqVars, btVars, elVars, hdVars, poVars, rmVars,
                  smVars, stVars, hvVars, mcVars, hrpVars, aiVars, fdVars,
                  msVars, imVars>>
\* everything but is_running, the subscribers and the feed loops
OutsideFeed == <<mdVars, bqVars, btVars, el_thread, el_tasks, el_hung,
                 hdVars, poVars, rmVars,
                 smVars, stVars, hvVars, mcVars, hrpVars, aiVars, gqVars,
                 msVars, imVars>>
\* everything but the momentum signal called on its own
OutsideMomentum == <<coreVars, smVars, stVars, hvVars, mcVars, hrpVars, aiVars,
                     gqVars, fdVars, imVars>>
\* everything but the Indian market service and the random generator
OutsideIndian == <<coreVars, smVars, stVars, hvVars, mc_first, mc_last, hrpVars, aiVars,
                   gqVars, fdVars, msVars>>

vars == <<mdVars, bqVars, btVars, svcVars>>

(***************************************************************************)
(* redis client, built with decode_responses=True.  A stored pickle is     *)
(* binary (it starts with the byte 0x80), so decoding the reply as UTF-8   *)
(* raises; with decoding off the bytes come back as stored.                *)
(***************************************************************************)
QuoteKey(symbol) == "quote:" \o symbol

RedisGet(store, key, up) ==
    IF ~up THEN [kind |-> "raise", error |-> "ConnectionError"]
    ELSE IF key \notin DOMAIN store THEN [kind |-> "nil"]
    ELSE IF decode_responses
         THEN [kind |-> "raise", error |-> "UnicodeDecodeError"]
         ELSE [kind |-> "bytes", value |-> store[key]]

\* setex(key, ttl, value): the new store, or the old one when redis is down
RedisSetex(store, key, value, up) ==
    IF up THEN (key :> value) @@ store ELSE store

(***************************************************************************)
(* Quote and the three results a fetch can give to asyncio.gather.         *)
(***************************************************************************)
Quote(symbol) == [symbol |-> Upper(symbol)]

NoQuote == [kind |-> "None"]
QuoteResult(q) == [kind |-> "Quote", quote |-> q]
ExceptionResult == [kind |-> "Exception"]

\* _get_cached_quote: every error of the lookup is swallowed
GetCachedQuote(store, symbol, up) ==
    LET r == RedisGet(store, QuoteKey(symbol), up)
    IN  IF r.kind = "bytes" THEN QuoteResult(r.value) ELSE NoQuote

\* _is_quote_fresh, on a cached quote stamped age seconds ago
IsQuoteFresh(age) == age < max_age_seconds

\* _cache_quote: setex under the quote's own symbol, errors swallowed
CacheQuote(store, q, up) == RedisSetex(store, QuoteKey(q.symbol), q, up)

(***************************************************************************)
(* The environment of one get_real_time_quote call: whether redis answers, *)
(* the age of a cached quote, what each provider yields ("none" covers an  *)
(* empty answer and every exception the provider wrapper swallows), and    *)
(* whether an exception escapes the handler.                               *)
(***************************************************************************)
ProviderAnswers == {"quote", "none"}

FetchEnvs ==
    [redisUp : BOOLEAN, age : {0, max_age_seconds},
     yahoo : ProviderAnswers, av : ProviderAnswers, polygon : ProviderAnswers,
     escapes : BOOLEAN]

\* (mutant) Polygon is asked whenever it is configured and Yahoo gave nothing
ProvidersTriedAskingPolygonAfterAlphaVantage(cachedFresh, env, avKey, pgKey) ==
    IF cachedFresh THEN << >>
    ELSE <<"yahoo">>
         \o (IF env.yahoo = "none" /\ avKey THEN <<"alpha_vantage">> ELSE << >>)
         \o (IF env.yahoo = "none" /\ pgKey THEN <<"polygon">> ELSE << >>)

\* the providers get_real_time_quote contacts, in order, for this environment
ProvidersTried(cachedFresh, env, avKey, pgKey) ==
    IF cachedFresh THEN << >>
    ELSE <<"yahoo">>
         \o (IF env.yahoo = "none" /\ avKey THEN <<"alpha_vantage">> ELSE << >>)
         \o (IF env.yahoo = "none" /\ ~(avKey /\ env.av = "quote") /\ pgKey
             THEN <<"polygon">> ELSE << >>)

\* get_real_time_quote: [result, store, tried]
GetRealTimeQuote(symbol, store, env, avKey, pgKey) ==
    LET cached == GetCachedQuote(store, symbol, env.redisUp)
        fresh  == cached.kind = "Quote" /\ IsQuoteFresh(env.age)
        tried  == ProvidersTried(fresh, env, avKey, pgKey)
        got    == \/ env.yahoo = "quote"
                  \/ avKey /\ env.av = "quote"
                  \/ pgKey /\ env.polygon = "quote"
    IN  IF env.escapes
        THEN [result |-> ExceptionResult, store |-> store, tried |-> << >>]
        ELSE IF fresh
        THEN [result |-> cached, store |-> store, tried |-> tried]
        ELSE IF got
        THEN [result |-> QuoteResult(Quote(symbol)),
              store  |-> CacheQuote(store, Quote(symbol), env.redisUp),
              tried  |-> tried]
        ELSE [result |-> NoQuote, store |-> store, tried |-> tried]

(***************************************************************************)
(* get_batch_quotes.                                                       *)
(***************************************************************************)
\* batch = symbols[i:i + batch_size]
Batch(symbols, i) == SubSeq(symbols, i + 1, Min(i + batch_size, Len(symbols)))

\* tasks = [self.get_real_time_quote(symbol) for symbol in batch]
CreateTasks(batch) ==
    [k \in 1..Len(batch) |->
        [symbol |-> batch[k], state |-> "pending", result |-> NoQuote]]

\* (mutant) the zip loop gives up at the first result that is no Quote
RECURSIVE CollectUntilFailure(_, _, _)
CollectUntilFailure(quotes, tasks, k) ==
    IF k > Len(tasks) THEN quotes
    ELSE IF tasks[k].result.kind = "Quote"
         THEN CollectUntilFailure((tasks[k].symbol :> tasks[k].result.quote) @@ quotes,
                                  tasks, k + 1)
         ELSE quotes

CollectResultsAborting(quotes, tasks) == CollectUntilFailure(quotes, tasks, 1)

\* for symbol, result in zip(batch, results): keep the Quote results
RECURSIVE CollectFrom(_, _, _)
CollectFrom(quotes, tasks, k) ==
    IF k > Len(tasks) THEN quotes
    ELSE IF tasks[k].result.kind = "Quote"
         THEN CollectFrom((tasks[k].symbol :> tasks[k].result.quote) @@ quotes,
                          tasks, k + 1)
         ELSE CollectFrom(quotes, tasks, k + 1)

CollectResults(quotes, tasks) == CollectFrom(quotes, tasks, 1)

\* (mutant) the delay is also taken after a last, full batch
RateLimitDelayAfterLast(i, n) == i + batch_size <= n

\* if i + batch_size < len(symbols): await asyncio.sleep(0.1)
RateLimitDelay(i, n) == i + batch_size < n

\* the for statement takes the next i of range(0, len(symbols), batch_size)
ForNext(i) ==
    IF i < Len(bq_symbols)
    THEN /\ bq_i' = i
         /\ bq_tasks' = CreateTasks(Batch(bq_symbols, i))
         /\ bq_pc' = "gather"
    ELSE /\ bq_i' = bq_i
         /\ bq_tasks' = << >>
         /\ bq_pc' = "done"

\* the call: quotes = {} and the first batch is handed to gather
GetBatchQuotes(symbols) ==
    /\ bq_pc = "idle"
    /\ bq_symbols' = symbols
    /\ bq_quotes' = EmptyMap
    /\ bq_started' = {}
    /\ bq_finished' = {}
    /\ bq_returned' = {}
    /\ bq_sleeps' = 0
    /\ bq_failed' = {}
    /\ IF 0 < Len(symbols)
       THEN /\ bq_i' = 0
            /\ bq_tasks' = CreateTasks(Batch(symbols, 0))
            /\ bq_pc' = "gather"
       ELSE /\ bq_i' = 0
            /\ bq_tasks' = << >>
            /\ bq_pc' = "done"
    /\ UNCHANGED <<mdVars, btVars, svcVars>>

\* the event loop runs the tasks in creation order; none of them suspends
NextPending(tasks) ==
    IF \E k \in 1..Len(tasks) : tasks[k].state # "done"
    THEN CHOOSE k \in 1..Len(tasks) :
            /\ tasks[k].state # "done"
            /\ \A j \in 1..(k - 1) : tasks[j].state = "done"
    ELSE 0

\* the symbol of the task that runs now ("" when none does)
CurrentSymbol ==
    IF bq_pc = "gather" /\ NextPending(bq_tasks) # 0
    THEN bq_tasks[NextPending(bq_tasks)].symbol
    ELSE ""

\* a task starts: get_real_time_quote(symbol) begins to run
FetchStart ==
    /\ bq_pc = "gather"
    /\ LET k == NextPending(bq_tasks)
       IN  /\ k # 0
           /\ bq_tasks[k].state = "pending"
           /\ bq_tasks' = [bq_tasks EXCEPT ![k].state = "running"]
           /\ bq_started' = bq_started \cup {bq_i + k}
    /\ UNCHANGED <<bq_pc, bq_symbols, bq_i, bq_quotes, bq_finished,
                   bq_returned, bq_sleeps, bq_failed>>
    /\ UNCHANGED <<mdVars, btVars, svcVars>>

\* what get_real_time_quote(symbol) can do now, over every environment
FetchOutcomes(symbol) ==
    {GetRealTimeQuote(symbol, redis_quotes, env, alpha_vantage_key, polygon_key) :
        env \in FetchEnvs}

\* the task ends with a Quote, None or an exception
FetchReturn(r) ==
    /\ bq_pc = "gather"
    /\ r.result.kind # "Quote" => Cardinality(bq_failed) < MaxFailures
    /\ LET k == NextPending(bq_tasks)
       IN  /\ k # 0
           /\ bq_tasks[k].state = "running"
           /\ r \in FetchOutcomes(bq_tasks[k].symbol)
           /\ bq_tasks' = [bq_tasks EXCEPT ![k].state = "done",
                                           ![k].result = r.result]
           /\ redis_quotes' = r.store
           /\ bq_returned' =
                 IF r.result.kind = "Quote"
                 THEN bq_returned \cup {bq_tasks[k].symbol}
                 ELSE bq_returned
           /\ bq_finished' = bq_finished \cup {bq_i + k}
    /\ bq_failed' = IF r.result.kind # "Quote"
                    THEN bq_failed \cup {bq_i + NextPending(bq_tasks)}
                    ELSE bq_failed
    /\ UNCHANGED <<bq_pc, bq_symbols, bq_i, bq_quotes, bq_started, bq_sleeps>>
    /\ UNCHANGED <<alpha_vantage_key, polygon_key>>
    /\ UNCHANGED <<btVars, svcVars>>

\* gather returns: the zip loop, then the delay or the next batch
AfterGather ==
    /\ bq_pc = "gather"
    /\ NextPending(bq_tasks) = 0
    /\ bq_quotes' = CollectResults(bq_quotes, bq_tasks)
    /\ IF RateLimitDelay(bq_i, Len(bq_symbols))
       THEN /\ bq_pc' = "sleep"
            /\ bq_sleeps' = bq_sleeps + 1
            /\ UNCHANGED <<bq_i, bq_tasks>>
       ELSE /\ ForNext(bq_i + batch_size)
            /\ UNCHANGED bq_sleeps
    /\ UNCHANGED <<bq_symbols, bq_started, bq_finished, bq_returned, bq_failed>>
    /\ UNCHANGED <<mdVars, btVars, svcVars>>

\* asyncio.sleep(0.1) is over
AfterSleep ==
    /\ bq_pc = "sleep"
    /\ ForNext(bq_i + batch_size)
    /\ UNCHANGED <<bq_symbols, bq_quotes, bq_started, bq_finished, bq_returned,
                   bq_sleeps, bq_failed>>
    /\ UNCHANGED <<mdVars, btVars, svcVars>>

(***************************************************************************)
(* BacktestingEngine.                                                      *)
(***************************************************************************)
Requests == 1..MaxRequests
UuidSpace == 1..MaxUuids

\* _register_default_strategies: name -> strategy class
strategies ==
    [n \in {"sma_crossover", "rsi_mean_reversion", "momentum", "mean_reversion",
            "bollinger_bands"} |->
        CASE n = "sma_crossover" -> "SMAStrategy"
          [] n = "rsi_mean_reversion" -> "RSIStrategy"
          [] n = "momentum" -> "MomentumStrategy"
          [] n = "mean_reversion" -> "MeanReversionStrategy"
          [] n = "bollinger_bands" -> "BollingerBandsStrategy"]

\* the requests the model sends
BacktestStrategies == {"momentum", "buy_and_hold"}
BacktestSymbolLists == {<< >>, <<"AAPL">>, <<"AAPL", "MSFT">>}
TotalReturns == {1, 2}

\* BacktestResult, by its strategy_name and total_return
BacktestResult(strategy_class, total_return) ==
    [strategy_name |-> strategy_class, total_return |-> total_return]

RECURSIVE SumReturns(_, _)
SumReturns(results, keys) ==
    IF keys = {} THEN 0
    ELSE LET k == CHOOSE x \in keys : TRUE
         IN  results[k].total_return + SumReturns(results, keys \ {k})

\* _aggregate_results: {} for no results; else the means over the symbols, each
\* kept as the exact fraction <<sum, count>>
AggregateResults(results) ==
    IF DOMAIN results = {} THEN EmptyMap
    ELSE [portfolio_return |->
            <<SumReturns(results, DOMAIN results), Cardinality(DOMAIN results)>>]

\* the record run_backtest caches
BacktestRecord(req) ==
    [results    |-> req.results,
     aggregated |-> AggregateResults(req.results),
     parameters |-> [strategy |-> req.strategy, symbols |-> req.symbols]]

\* (mutant) one identifier, made once, serves every run
SharedBacktestIds(issued) == {1}

\* backtest_id = str(uuid.uuid4()): an identifier never handed out before
\* (identifiers are interchangeable, so the least unused one stands for any)
NewBacktestIds(issued) ==
    {id \in UuidSpace \ issued : \A other \in UuidSpace \ issued : id <= other}

\* (mutant) the cache keeps only the newest record
CacheStoreEvicting(cache, id, record) == (id :> record)

\* self.results_cache[backtest_id] = {...}
CacheStore(cache, id, record) == (id :> record) @@ cache

IdleRequest ==
    [pc |-> "idle", backtest_id |-> 0, strategy |-> "", symbols |-> << >>,
     done |-> 0, results |-> EmptyMap]

\* the tail of run_backtest once every symbol is done: aggregate, cache, return
FinishBacktest(r, req) ==
    /\ results_cache' = CacheStore(results_cache, req.backtest_id, BacktestRecord(req))
    /\ bt_req' = [bt_req EXCEPT ![r] = [req EXCEPT !.pc = "completed"]]
    /\ bt_returned' = (req.backtest_id :> BacktestRecord(req)) @@ bt_returned
    /\ bt_completed' = bt_completed + 1

\* run_backtest is called: the id is drawn, the strategy looked up, and the
\* call runs to its first await (or to its end, for no symbols)
RunBacktest(r, strategy, symbols, id) ==
    /\ bt_req[r].pc = "idle"
    /\ id \in NewBacktestIds(bt_issued)
    /\ bt_issued' = bt_issued \cup {id}
    /\ LET req == [pc |-> "running", backtest_id |-> id, strategy |-> strategy,
                   symbols |-> symbols, done |-> 0, results |-> EmptyMap]
       IN  IF strategy \notin DOMAIN strategies
           THEN /\ bt_req' = [bt_req EXCEPT ![r] = [req EXCEPT !.pc = "failed"]]
                /\ UNCHANGED <<results_cache, bt_returned, bt_completed>>
           ELSE IF Len(symbols) = 0
           THEN FinishBacktest(r, req)
           ELSE /\ bt_req' = [bt_req EXCEPT ![r] = req]
                /\ UNCHANGED <<results_cache, bt_returned, bt_completed>>
    /\ UNCHANGED <<bt_interleaved, bt_get>>
    /\ UNCHANGED <<mdVars, bqVars, svcVars>>

\* await _run_single_backtest(...) for the next symbol is over: its
\* BacktestResult is stored under the symbol and the loop goes on
SingleBacktestDone(r, total_return) ==
    /\ bt_req[r].pc = "running"
    /\ bt_req[r].done < Len(bt_req[r].symbols)
    /\ bt_interleaved' =
          (bt_interleaved \/ \E o \in Requests \ {r} : bt_req[o].pc = "running")
    /\ LET old == bt_req[r]
           symbol == old.symbols[old.done + 1]
           result == BacktestResult(strategies[old.strategy], total_return)
           req == [old EXCEPT !.done = old.done + 1,
                              !.results = (symbol :> result) @@ old.results]
       IN  IF req.done < Len(req.symbols)
           THEN /\ bt_req' = [bt_req EXCEPT ![r] = req]
                /\ UNCHANGED <<results_cache, bt_returned, bt_completed>>
           ELSE FinishBacktest(r, req)
    /\ UNCHANGED <<bt_issued, bt_get>>
    /\ UNCHANGED <<mdVars, bqVars, svcVars>>

\* (mutant) the results gathered so far are cached before the error leaves
SingleBacktestRaisesCachingPartial(r) ==
    /\ bt_req[r].pc = "running"
    /\ bt_req[r].done < Len(bt_req[r].symbols)
    /\ bt_req' = [bt_req EXCEPT ![r].pc = "failed"]
    /\ results_cache' =
          CacheStore(results_cache, bt_req[r].backtest_id, BacktestRecord(bt_req[r]))
    /\ UNCHANGED <<bt_issued, bt_returned, bt_completed, bt_interleaved, bt_get>>
    /\ UNCHANGED <<mdVars, bqVars, svcVars>>

\* the data fetch or the strategy run of the next symbol raised: the error
\* leaves run_backtest
SingleBacktestRaises(r) ==
    /\ bt_req[r].pc = "running"
    /\ bt_req[r].done < Len(bt_req[r].symbols)
    /\ bt_req' = [bt_req EXCEPT ![r].pc = "failed"]
    /\ UNCHANGED <<results_cache, bt_issued, bt_returned, bt_completed,
                   bt_interleaved, bt_get>>
    /\ UNCHANGED <<mdVars, bqVars, svcVars>>

\* the caller has its answer (or its error); the slot serves the next request
ReleaseRequest(r) ==
    /\ bt_req[r].pc \in {"completed", "failed"}
    /\ bt_req' = [bt_req EXCEPT ![r] = IdleRequest]
    /\ UNCHANGED <<results_cache, bt_issued, bt_returned, bt_completed,
                   bt_interleaved, bt_get>>
    /\ UNCHANGED <<mdVars, bqVars, svcVars>>

\* get_backtest_results(backtest_id)
GetBacktestResults(id) ==
    /\ bt_get' =
          IF id \notin DOMAIN results_cache
          THEN [id |-> id, kind |-> "not_found",
                returned |-> id \in DOMAIN bt_returned]
          ELSE [id |-> id, kind |-> "found", record |-> results_cache[id],
                returned |-> id \in DOMAIN bt_returned]
    /\ UNCHANGED <<results_cache, bt_req, bt_issued, bt_returned, bt_completed,
                   bt_interleaved>>
    /\ UNCHANGED <<mdVars, bqVars, svcVars>>

InitBacktest ==
    /\ results_cache = EmptyMap
    /\ bt_req = [r \in Requests |-> IdleRequest]
    /\ bt_issued = {}
    /\ bt_returned = EmptyMap
    /\ bt_completed = 0
    /\ bt_interleaved = FALSE
    /\ bt_get = [id |-> 0, kind |-> "none", returned |-> FALSE]

NextBacktest ==
    \/ \E r \in Requests, st \in BacktestStrategies, sy \in BacktestSymbolLists,
          id \in UuidSpace : RunBacktest(r, st, sy, id)
    \/ \E r \in Requests, t \in TotalReturns : SingleBacktestDone(r, t)
    \/ \E r \in Requests : SingleBacktestRaises(r)
    \/ \E r \in Requests : ReleaseRequest(r)
    \/ \E id \in UuidSpace : GetBacktestResults(id)

(***************************************************************************)
(* The asyncio event loop.  Request handlers and the two feed loops are    *)
(* tasks on the one thread of the loop; a task keeps the thread until it   *)
(* reaches an await that suspends it.  The provider calls (yf.Ticker.info, *)
(* Ticker.history, the redis client) are plain blocking calls inside       *)
(* async def, so a task keeps the thread for their whole duration.         *)
(***************************************************************************)
RequestTasks == {"quote_request", "history_request"}
FeedTasks == {"yahoo_feed", "crypto_feed"}
Tasks == RequestTasks \cup FeedTasks

FeedSymbols == {"AAPL"}
Callbacks == {"on_quote"}

\* the elements of a list
Range(seq) == {seq[k] : k \in 1..Len(seq)}

\* list.remove(x): the list without its first x
RemoveFirst(seq, x) ==
    LET k == CHOOSE j \in 1..Len(seq) :
                 seq[j] = x /\ \A h \in 1..(j - 1) : seq[h] # x
    IN  SubSeq(seq, 1, k - 1) \o SubSeq(seq, k + 1, Len(seq))

\* a dict without one key
DelKey(dict, key) == [k \in DOMAIN dict \ {key} |-> dict[k]]

\* lifespan: asyncio.create_task(start_real_time_feeds()); the task sets
\* is_running and hands both feed loops to gather
StartRealTimeFeeds ==
    /\ el_thread = "free"
    /\ \A f \in FeedTasks : el_tasks[f] = "none"
    /\ is_running' = TRUE
    /\ el_tasks' = [t \in Tasks |-> IF t \in FeedTasks THEN "ready" ELSE el_tasks[t]]
    /\ UNCHANGED <<subscribers, el_thread, el_hung>>
    /\ UNCHANGED <<mdVars, bqVars, btVars, hdVars, poVars, rmVars, extVars>>

\* a client sends GET /quote/{symbol} or GET /historical/{symbol}
RequestArrives(t) ==
    /\ el_tasks[t] = "none"
    /\ el_tasks' = [el_tasks EXCEPT ![t] = "ready"]
    /\ UNCHANGED <<is_running, subscribers, el_thread, el_hung>>
    /\ UNCHANGED <<mdVars, bqVars, btVars, hdVars, poVars, rmVars, extVars>>

\* the loop runs the handler: get_real_time_quote or get_historical_data go,
\* without suspending, into the blocking provider call
RunRequest(t, hangs) ==
    /\ el_thread = "free"
    /\ el_tasks[t] = "ready"
    /\ el_tasks' = [el_tasks EXCEPT ![t] = "in_call"]
    /\ el_thread' = t
    /\ el_hung' = hangs
    /\ UNCHANGED <<is_running, subscribers>>
    /\ UNCHANGED <<mdVars, bqVars, btVars, hdVars, poVars, rmVars, extVars>>

\* the loop runs a feed: the while test, then the poll of the subscribed
\* symbols (yahoo feed with subscribers) or straight to asyncio.sleep(1)
FeedRuns(f, hangs) ==
    /\ el_thread = "free"
    /\ el_tasks[f] = "ready"
    /\ IF ~is_running
       THEN /\ el_tasks' = [el_tasks EXCEPT ![f] = "stopped"]
            /\ UNCHANGED <<el_thread, el_hung>>
       ELSE IF f = "yahoo_feed" /\ DOMAIN subscribers # {}
       THEN /\ el_tasks' = [el_tasks EXCEPT ![f] = "in_call"]
            /\ el_thread' = f
            /\ el_hung' = hangs
       ELSE /\ el_tasks' = [el_tasks EXCEPT ![f] = "sleeping"]
            /\ UNCHANGED <<el_thread, el_hung>>
    /\ UNCHANGED <<is_running, subscribers>>
    /\ UNCHANGED <<mdVars, bqVars, btVars, hdVars, poVars, rmVars, extVars>>

\* the provider call returns: a handler answers, the yahoo feed notifies its
\* subscribers and goes to asyncio.sleep(1); the thread is free again
CallReturns(t) ==
    /\ el_thread = t
    /\ el_tasks[t] = "in_call"
    /\ ~el_hung
    /\ el_tasks' = [el_tasks EXCEPT ![t] = IF t \in FeedTasks THEN "sleeping" ELSE "done"]
    /\ el_thread' = "free"
    /\ UNCHANGED <<is_running, subscribers, el_hung>>
    /\ UNCHANGED <<mdVars, bqVars, btVars, hdVars, poVars, rmVars, extVars>>

\* the timer of asyncio.sleep(1) runs out: the feed can run again
TimerElapses(f) ==
    /\ el_tasks[f] = "sleeping"
    /\ el_tasks' = [el_tasks EXCEPT ![f] = "ready"]
    /\ UNCHANGED <<is_running, subscribers, el_thread, el_hung>>
    /\ UNCHANGED <<mdVars, bqVars, btVars, hdVars, poVars, rmVars, extVars>>

\* the client has its answer; the next request of the kind can arrive
RequestAnswered(t) ==
    /\ t \in RequestTasks
    /\ el_tasks[t] = "done"
    /\ el_tasks' = [el_tasks EXCEPT ![t] = "none"]
    /\ UNCHANGED <<is_running, subscribers, el_thread, el_hung>>
    /\ UNCHANGED <<mdVars, bqVars, btVars, hdVars, poVars, rmVars, extVars>>

\* subscribe_to_symbol (each callback is subscribed once per symbol)
SubscribeToSymbol(symbol, callback) ==
    /\ el_thread = "free"
    /\ symbol \in DOMAIN subscribers => callback \notin Range(subscribers[symbol])
    /\ subscribers' =
          IF symbol \notin DOMAIN subscribers
          THEN (symbol :> <<callback>>) @@ subscribers
          ELSE [subscribers EXCEPT ![symbol] = Append(@, callback)]
    /\ UNCHANGED <<is_running, el_thread, el_tasks, el_hung>>
    /\ UNCHANGED <<mdVars, bqVars, btVars, hdVars, poVars, rmVars, extVars>>

\* unsubscribe_from_symbol
UnsubscribeFromSymbol(symbol, callback) ==
    /\ el_thread = "free"
    /\ subscribers' =
          IF symbol \notin DOMAIN subscribers THEN subscribers
          ELSE IF callback \notin Range(subscribers[symbol]) THEN subscribers
          ELSE IF RemoveFirst(subscribers[symbol], callback) = << >>
          THEN DelKey(subscribers, symbol)
          ELSE [subscribers EXCEPT ![symbol] = RemoveFirst(@, callback)]
    /\ UNCHANGED <<is_running, el_thread, el_tasks, el_hung>>
    /\ UNCHANGED <<mdVars, bqVars, btVars, hdVars, poVars, rmVars, extVars>>

\* cleanup, at shutdown
Cleanup ==
    /\ el_thread = "free"
    /\ is_running' = FALSE
    /\ UNCHANGED <<subscribers, el_thread, el_tasks, el_hung>>
    /\ UNCHANGED <<mdVars, bqVars, btVars, hdVars, poVars, rmVars, extVars>>

\* the loop gives the thread to task t
TaskRuns(t) ==
    IF t \in RequestTasks
    THEN \E hangs \in BOOLEAN : RunRequest(t, hangs)
    ELSE \E hangs \in BOOLEAN : FeedRuns(t, hangs)

InitLoop ==
    /\ is_running = FALSE
    /\ subscribers = EmptyMap
    /\ el_thread = "free"
    /\ el_tasks = [t \in Tasks |-> "none"]
    /\ el_hung = FALSE

NextLoop ==
    \/ StartRealTimeFeeds
    \/ \E t \in RequestTasks : RequestArrives(t)
    \/ \E t \in RequestTasks, hangs \in BOOLEAN : RunRequest(t, hangs)
    \/ \E f \in FeedTasks, hangs \in BOOLEAN : FeedRuns(f, hangs)
    \/ \E t \in Tasks : CallReturns(t)
    \/ \E f \in FeedTasks : TimerElapses(f)
    \/ \E t \in RequestTasks : RequestAnswered(t)
    \/ \E s \in FeedSymbols, cb \in Callbacks : SubscribeToSymbol(s, cb)
    \/ \E s \in FeedSymbols, cb \in Callbacks : UnsubscribeFromSymbol(s, cb)
    \/ Cleanup

(***************************************************************************)
(* get_historical_data and its redis cache.                                *)
(***************************************************************************)
\* market_data_service.py:264  setex(cache_key, 3600, ...)
hist_ttl == 3600

\* the (symbol, period, interval) arguments the model calls with: the first,
\* and one more differing from it in each place
HistRequests ==
    {<<"AAPL", "1y", "1d">>, <<"MSFT", "1y", "1d">>,
     <<"AAPL", "1mo", "1d">>, <<"AAPL", "1y", "1h">>}

\* what the provider has for a request changes over time: a version stamp
HistVersions == {1, 2}

\* cache_key = f"hist:{symbol}:{period}:{interval}"
HistKey(symbol, period, interval) ==
    "hist:" \o symbol \o ":" \o period \o ":" \o interval

HistKeys == {HistKey(q[1], q[2], q[3]) : q \in HistRequests}

\* the frame ticker.history(period, interval) gives for a symbol
HistFrame(symbol, period, interval, version) ==
    [symbol |-> symbol, period |-> period, interval |-> interval,
     version |-> version, indicators |-> FALSE]

\* _add_technical_indicators: the same rows with the indicator columns
AddTechnicalIndicators(data) == [data EXCEPT !.indicators = TRUE]

NoFrame == [symbol |-> "", period |-> "", interval |-> "", version |-> 0,
            indicators |-> FALSE]

\* the environment of one call: whether redis answers, and what the provider
\* gives ("frame", an "empty" frame, or an exception)
HistEnvs ==
    [redisUp : BOOLEAN, provider : {"frame", "empty", "raise"}, version : HistVersions]

\* the value setex stores, with its time to live
Pickled(data, ttl) == [data |-> data, ttl |-> ttl]

\* get_historical_data: [kind, error, data, store, contacted]
HistoricalData(symbol, period, interval, store, env) ==
    LET cache_key == HistKey(symbol, period, interval)
        cached_data == RedisGet(store, cache_key, env.redisUp)
        data == AddTechnicalIndicators(HistFrame(symbol, period, interval, env.version))
    IN  IF cached_data.kind = "raise"
        THEN [kind |-> "raise", error |-> cached_data.error, data |-> NoFrame,
              store |-> store, contacted |-> FALSE]
        ELSE IF cached_data.kind = "bytes"
        THEN [kind |-> "return", error |-> "", data |-> cached_data.value.data,
              store |-> store, contacted |-> FALSE]
        ELSE IF env.provider = "raise"
        THEN [kind |-> "raise", error |-> "provider error", data |-> NoFrame,
              store |-> store, contacted |-> TRUE]
        ELSE IF env.provider = "empty"
        THEN [kind |-> "raise", error |-> "No historical data found",
              data |-> NoFrame, store |-> store, contacted |-> TRUE]
        ELSE [kind |-> "return", error |-> "", data |-> data,
              store |-> RedisSetex(store, cache_key, Pickled(data, hist_ttl), env.redisUp),
              contacted |-> TRUE]

\* one call of get_historical_data, from entry to return or raise
GetHistoricalData(symbol, period, interval, env) ==
    /\ LET r == HistoricalData(symbol, period, interval, redis_hist, env)
           cache_key == HistKey(symbol, period, interval)
       IN  /\ redis_hist' = r.store
           /\ hd_last' =
                 [symbol |-> symbol, period |-> period, interval |-> interval,
                  redis_up |-> env.redisUp,
                  cached_before |-> cache_key \in DOMAIN redis_hist,
                  cached_data |-> IF cache_key \in DOMAIN redis_hist
                                  THEN redis_hist[cache_key].data ELSE NoFrame,
                  kind |-> r.kind, error |-> r.error, data |-> r.data,
                  contacted |-> r.contacted]
    /\ UNCHANGED <<mdVars, bqVars, btVars, elVars, poVars, rmVars, extVars>>

\* redis drops a key when its time to live has run out
ExpireHist(key) ==
    /\ key \in DOMAIN redis_hist
    /\ redis_hist' = [k \in DOMAIN redis_hist \ {key} |-> redis_hist[k]]
    /\ UNCHANGED hd_last
    /\ UNCHANGED <<mdVars, bqVars, btVars, elVars, poVars, rmVars, extVars>>

InitHist ==
    /\ redis_hist = EmptyMap
    /\ hd_last = [symbol |-> "", period |-> "", interval |-> "", redis_up |-> FALSE,
                  cached_before |-> FALSE, cached_data |-> NoFrame,
                  kind |-> "none", error |-> "", data |-> NoFrame,
                  contacted |-> FALSE]

NextHist ==
    \/ \E q \in HistRequests, env \in HistEnvs :
          GetHistoricalData(q[1], q[2], q[3], env)
    \/ \E key \in HistKeys : ExpireHist(key)

(***************************************************************************)
(* PortfolioOptimizer.optimize_portfolio.  The numeric libraries are known *)
(* by what the code asks of them: which solver call is made, and whether   *)
(* it gives weights or raises.                                             *)
(***************************************************************************)
KnownMethods == {"mean_variance", "black_litterman", "risk_parity", "hierarchical"}
Methods == KnownMethods \cup {"genetic"}

KnownObjectives == {"max_sharpe", "min_volatility", "max_return", "efficient_risk"}
Objectives == KnownObjectives \cup {"max_sortino"}

PriceRows == 0..MaxPriceRows

\* prices.pct_change().dropna(): the first row has no return
PctChangeRows(rows) == IF rows > 0 THEN rows - 1 ELSE 0

\* the environment of one call: the download, the solver, the metrics
OptEnvs ==
    [fetch : {"frame", "raise"}, rows : PriceRows,
     solver : {"weights", "raise"}, metrics : {"ok", "raise"}]

Raised(error) == [kind |-> "raise", error |-> error]

\* _get_price_data: the Adj Close frame, or the download's error re-raised
GetPriceData(env) ==
    IF env.fetch = "raise" THEN Raised("price data error")
    ELSE [kind |-> "frame", rows |-> env.rows]

\* the EfficientFrontier call _mean_variance_optimization makes
MeanVarianceSolver(objective) ==
    CASE objective = "max_sharpe" -> "max_sharpe"
      [] objective = "min_volatility" -> "min_volatility"
      [] objective = "max_return" -> "efficient_return"
      [] objective = "efficient_risk" -> "efficient_risk"
      [] OTHER -> "max_sharpe"

\* the EfficientFrontier call _black_litterman_optimization makes
BlackLittermanSolver(objective) ==
    IF objective = "max_sharpe" THEN "max_sharpe" ELSE "min_volatility"

\* a result dict: the weights (known by the solver call that made them), and
\* the 'method' and 'objective' entries
OptResult(solver, method, objective, env) ==
    IF env.solver = "raise" THEN Raised("solver error")
    ELSE [kind |-> "result", weights |-> [solved_by |-> solver],
          method |-> method, objective |-> objective, metrics |-> FALSE]

MeanVarianceOptimization(price_data, objective, env) ==
    OptResult(MeanVarianceSolver(objective), "mean_variance", objective, env)

BlackLittermanOptimization(price_data, objective, env) ==
    OptResult(BlackLittermanSolver(objective), "black_litterman", objective, env)

RiskParityOptimization(price_data, env) ==
    OptResult("rpp.design", "risk_parity", "equal_risk_contribution", env)

HierarchicalRiskParity(price_data, env) ==
    OptResult("calculate_hrp_weights", "hierarchical_risk_parity",
              "hierarchical_diversification", env)

\* (mutant) a method that is not known is served as mean_variance
MethodDispatchDefaulting(method, price_data, objective, env) ==
    CASE method = "black_litterman" -> BlackLittermanOptimization(price_data, objective, env)
      [] method = "risk_parity" -> RiskParityOptimization(price_data, env)
      [] method = "hierarchical" -> HierarchicalRiskParity(price_data, env)
      [] OTHER -> MeanVarianceOptimization(price_data, objective, env)

\* the if / elif chain over method
MethodDispatch(method, price_data, objective, env) ==
    CASE method = "mean_variance" -> MeanVarianceOptimization(price_data, objective, env)
      [] method = "black_litterman" -> BlackLittermanOptimization(price_data, objective, env)
      [] method = "risk_parity" -> RiskParityOptimization(price_data, env)
      [] method = "hierarchical" -> HierarchicalRiskParity(price_data, env)
      [] OTHER -> Raised("Unknown optimization method")

\* result.update(_calculate_portfolio_metrics(...)): {} when the metrics raise
WithPortfolioMetrics(result, env) ==
    [result EXCEPT !.metrics = (env.metrics = "ok")]

\* optimize_portfolio: the price data first, then the method, then the metrics
OptimizePortfolioResult(method, objective, env) ==
    LET price_data == GetPriceData(env)
    IN  IF price_data.kind = "raise" THEN price_data
        ELSE LET result == MethodDispatch(method, price_data, objective, env)
             IN  IF result.kind = "raise" THEN result
                 ELSE WithPortfolioMetrics(result, env)

NoCall == [kind |-> "none"]

\* the calls optimize_portfolio can be answering, over every environment
OptimizeCalls(method, objective) ==
    {[kind |-> "call", method |-> method, objective |-> objective,
      price_data |-> GetPriceData(env),
      outcome |-> OptimizePortfolioResult(method, objective, env)] : env \in OptEnvs}

\* one call of optimize_portfolio, from entry to return or raise
OptimizePortfolio(method, objective, call) ==
    /\ po_last = NoCall
    /\ call \in OptimizeCalls(method, objective)
    /\ po_last' = call
    /\ UNCHANGED <<mdVars, bqVars, btVars, elVars, hdVars, rmVars, extVars>>

\* the caller has its answer (or its error)
OptimizeAnswered ==
    /\ po_last # NoCall
    /\ po_last' = NoCall
    /\ UNCHANGED <<mdVars, bqVars, btVars, elVars, hdVars, rmVars, extVars>>

InitOpt == po_last = NoCall

NextOpt ==
    \/ \E m \in Methods, o \in Objectives :
          \E call \in OptimizeCalls(m, o) : OptimizePortfolio(m, o, call)
    \/ OptimizeAnswered

(***************************************************************************)
(* RiskManager.calculate_var.                                              *)
(***************************************************************************)
\* risk_manager.py:41  len(returns) < 30
min_var_observations == 30

\* self.var_methods
var_methods == {"historical", "parametric", "monte_carlo", "garch"}
VarMethodArgs == var_methods \cup {"cornish_fisher"}

\* the confidence levels (in per mille: self.confidence_levels) and the time
\* horizons (days) the model calls with
ConfidenceLevels == {950, 990}
TimeHorizons == {1, 4}

\* the environment of one call: the download, the GARCH fit and forecast, and
\* the later calculations
VarEnvs ==
    [fetch : {"frame", "raise"}, rows : PriceRows, garch : {"fit", "raise"},
     compute : {"ok", "raise"}]

NoReturns == [kind |-> "None", len |-> 0]

\* _get_portfolio_returns: the return series, or None when anything raised
GetPortfolioReturns(env) ==
    IF env.fetch = "raise" THEN NoReturns
    ELSE [kind |-> "series", len |-> PctChangeRows(env.rows)]

\* (mutant) the test rejects a series of exactly the minimum length too
InsufficientDataInclusive(returns) ==
    returns.kind = "None" \/ returns.len <= min_var_observations

\* returns is None or len(returns) < 30
InsufficientData(returns) ==
    returns.kind = "None" \/ returns.len < min_var_observations

\* (mutant) a method that is not known is computed as the parametric one
VarRoutineDefaultingToParametric(method) ==
    IF method \in var_methods THEN method ELSE "parametric"

\* the VaR routine the if / elif chain over method runs
VarRoutine(method) ==
    IF method \in var_methods THEN method ELSE "historical"

\* the 'method' entry of the details a VaR routine reports
DetailsMethod(routine) ==
    CASE routine = "historical" -> "historical_simulation"
      [] routine = "parametric" -> "parametric_normal"
      [] routine = "monte_carlo" -> "monte_carlo"
      [] routine = "garch" -> "garch"

\* the dict a VaR routine returns: the estimate (known by the routine that
\* computed it and by its inputs) and the details
VarEstimate(routine, returns, confidence_level, time_horizon) ==
    [var |-> [computed_by |-> routine, returns |-> returns,
              confidence_level |-> confidence_level, time_horizon |-> time_horizon],
     details |-> [method |-> DetailsMethod(routine)]]

\* _parametric_var
ParametricVar(returns, confidence_level, time_horizon) ==
    VarEstimate("parametric", returns, confidence_level, time_horizon)

\* (mutant) a failed fit falls back to the historical method
GarchVarFallingBackToHistorical(returns, confidence_level, time_horizon, env) ==
    IF env.garch = "raise"
    THEN VarEstimate("historical", returns, confidence_level, time_horizon)
    ELSE VarEstimate("garch", returns, confidence_level, time_horizon)

\* _garch_var: the GARCH estimate, or after any exception of the fit or the
\* forecast the result of _parametric_var
GarchVar(returns, confidence_level, time_horizon, env) ==
    IF env.garch = "raise"
    THEN ParametricVar(returns, confidence_level, time_horizon)
    ELSE VarEstimate("garch", returns, confidence_level, time_horizon)

\* var_result of the if / elif chain over method
VarResult(method, returns, confidence_level, time_horizon, env) ==
    CASE VarRoutine(method) = "garch" ->
             GarchVar(returns, confidence_level, time_horizon, env)
      [] VarRoutine(method) = "parametric" ->
             ParametricVar(returns, confidence_level, time_horizon)
      [] OTHER ->
             VarEstimate(VarRoutine(method), returns, confidence_level, time_horizon)

\* _calculate_cvar: known by the series and the confidence level it is of
CalculateCvar(returns, confidence_level) ==
    [tail_mean_of |-> returns, confidence_level |-> confidence_level]

\* _calculate_max_drawdown: known by the series it is of
CalculateMaxDrawdown(returns) == [drawdown_of |-> returns]

\* calculate_var
CalculateVarResult(method, confidence_level, time_horizon, env) ==
    LET returns == GetPortfolioReturns(env)
        var_result == VarResult(method, returns, confidence_level, time_horizon, env)
    IN  IF InsufficientData(returns)
        THEN Raised("Insufficient data for VaR calculation")
        ELSE IF env.compute = "raise" THEN Raised("calculation error")
        ELSE [kind |-> "result", var |-> var_result.var,
              cvar |-> CalculateCvar(returns, confidence_level),
              max_drawdown |-> CalculateMaxDrawdown(returns),
              method |-> method,
              confidence_level |-> confidence_level, time_horizon |-> time_horizon,
              details |-> var_result.details]

\* a call of calculate_var with its environment and its outcome
VarCall(method, confidence_level, time_horizon, env) ==
    [kind |-> "call", method |-> method, confidence_level |-> confidence_level,
     time_horizon |-> time_horizon, env |-> env,
     returns |-> GetPortfolioReturns(env),
     outcome |-> CalculateVarResult(method, confidence_level, time_horizon, env)]

\* one call of calculate_var, from entry to return or raise
CalculateVar(method, confidence_level, time_horizon, env) ==
    /\ rm_last = NoCall
    /\ rm_last' = VarCall(method, confidence_level, time_horizon, env)
    /\ UNCHANGED <<mdVars, bqVars, btVars, elVars, hdVars, poVars, extVars>>

\* the caller has its answer (or its error)
VarAnswered ==
    /\ rm_last # NoCall
    /\ rm_last' = NoCall
    /\ UNCHANGED <<mdVars, bqVars, btVars, elVars, hdVars, poVars, extVars>>

InitVar == rm_last = NoCall

NextVar ==
    \/ \E m \in VarMethodArgs, c \in ConfidenceLevels, h \in TimeHorizons,
          env \in VarEnvs : CalculateVar(m, c, h, env)
    \/ VarAnswered

(***************************************************************************)
(* The simplified service (main-simple.py): three route handlers, each a   *)
(* try block followed by "except Exception as e: raise HTTPException(500)". *)
(***************************************************************************)
SimpleSymbols == {"AAPL", "MSFT", "TSLA", "RELIANCE.NS", "TCS.NS", "NOPE"}

\* the keys of IndianMarketService.indian_companies among SimpleSymbols
indian_companies == {"RELIANCE.NS", "TCS.NS"}

\* raise HTTPException(status_code=..., detail=...)
HTTPException(status_code, detail) ==
    [kind |-> "raise", class |-> "HTTPException", status_code |-> status_code,
     detail |-> detail]

\* an exception of the provider or of the conversions
ProviderError ==
    [kind |-> "raise", class |-> "Exception", status_code |-> 0,
     detail |-> "provider error"]

\* a handler's return value
Returned(data) ==
    [kind |-> "return", class |-> "", status_code |-> 200, detail |-> data]

\* the classes "except Exception" catches: HTTPException derives from Exception
CaughtByExceptException == {"Exception", "HTTPException"}

\* except Exception as e: raise HTTPException(status_code=500, detail=str(e))
ExceptException(outcome) ==
    IF outcome.kind = "raise" /\ outcome.class \in CaughtByExceptException
    THEN HTTPException(500, outcome.detail)
    ELSE outcome

\* what the provider gives one request
SimpleEnvs == [info : {"ok", "raise"}, history : {"rows", "empty", "raise"}]

\* the try block of get_quote
QuoteBody(symbol, env) ==
    IF env.info = "raise" \/ env.history = "raise" THEN ProviderError
    ELSE IF env.history = "empty" THEN HTTPException(404, "Symbol not found")
    ELSE Returned("quote")

\* the try block of get_historical_data
HistoricalBody(symbol, period, interval, env) ==
    IF env.history = "raise" THEN ProviderError
    ELSE IF env.history = "empty" THEN HTTPException(404, "No data found")
    ELSE Returned("rows")

\* IndianMarketService.get_company_details: {} for an unknown company, else
\* the details (the short ones when the provider raised)
CompanyDetails(symbol, env) ==
    IF symbol \notin indian_companies THEN "{}"
    ELSE IF env.info = "raise" THEN "short details"
    ELSE "details"

\* the try block of get_company_details
CompanyBody(symbol, env) ==
    LET details == CompanyDetails(symbol, env)
    IN  IF details = "{}" THEN HTTPException(404, "Company not found")
        ELSE Returned(details)

\* the response the client gets for what leaves the handler
SimpleResponse(endpoint, symbol, query, env, no_data, outcome) ==
    [kind |-> "request", endpoint |-> endpoint, symbol |-> symbol, query |-> query,
     env |-> env,
     no_data |-> no_data, unexpected |-> (outcome.class = "Exception"),
     status |-> ExceptException(outcome).status_code,
     detail |-> ExceptException(outcome).detail]

\* GET /api/v1/market/quote/{symbol}
SimpleGetQuote(symbol, env) ==
    /\ sm_last' = SimpleResponse("quote", symbol, << >>, env,
                                 env.info = "ok" /\ env.history = "empty",
                                 QuoteBody(symbol, env))
    /\ UNCHANGED OutsideSimple

\* GET /api/v1/market/historical/{symbol}
SimpleGetHistoricalData(symbol, period, interval, env) ==
    /\ env.info = "ok"
    /\ sm_last' = SimpleResponse("historical", symbol, <<period, interval>>, env,
                                 env.history = "empty",
                                 HistoricalBody(symbol, period, interval, env))
    /\ UNCHANGED OutsideSimple

\* GET /api/v1/indian-market/company/{symbol}
SimpleGetCompanyDetails(symbol, env) ==
    /\ env.history = "rows"
    /\ sm_last' = SimpleResponse("company", symbol, << >>, env,
                                 symbol \notin indian_companies,
                                 CompanyBody(symbol, env))
    /\ UNCHANGED OutsideSimple

InitSimple ==
    sm_last = [kind |-> "none", endpoint |-> "", symbol |-> "", query |-> << >>,
               env |-> [info |-> "ok", history |-> "rows"], no_data |-> FALSE,
               unexpected |-> FALSE, status |-> 0, detail |-> ""]

NextSimple ==
    \/ \E s \in SimpleSymbols, env \in SimpleEnvs : SimpleGetQuote(s, env)
    \/ \E s \in SimpleSymbols, p \in {"1y", "1mo"}, i \in {"1d", "1h"},
          env \in SimpleEnvs : SimpleGetHistoricalData(s, p, i, env)
    \/ \E s \in SimpleSymbols, env \in SimpleEnvs : SimpleGetCompanyDetails(s, env)

(***************************************************************************)
(* RiskManager.stress_test_portfolio.  Weights are whole percents, shocks  *)
(* are basis points, so a loss is counted in millionths (weight * shock).  *)
(* A float is a number or nan: [nan |-> BOOLEAN, v |-> Int].               *)
(***************************************************************************)
Num(v) == [nan |-> FALSE, v |-> v]
NaN == [nan |-> TRUE, v |-> 0]

\* a < b on floats: every comparison with nan is False
Lt(a, b) == ~a.nan /\ ~b.nan /\ a.v < b.v

\* a + b on floats
Add(a, b) == IF a.nan \/ b.nan THEN NaN ELSE Num(a.v + b.v)

\* returns.rolling(21): the window of the worst month
rolling_month == 21
\* the loss beyond which a scenario is counted as severe (-0.1)
severe_loss == -100000
\* rate_shocks, in basis points
rate_shocks == <<100, 200, 300, -100, -200>>
\* "* -5  # Rough duration estimate"
rate_duration == -5
\* equity_shock of the four crash scenarios, in basis points
equity_shocks == <<-3700, -3400, -2200, -4900>>
\* -2 * np.sqrt(0.09 - 0.04), in millionths
correlation_breakdown_loss == -447214

\* portfolios: symbol -> weight in percent
StressPortfolios ==
    {[s \in {"AAPL"} |-> 100], [s \in {"AAPL"} |-> 20],
     [s \in {"AAPL", "MSFT"} |-> IF s = "AAPL" THEN 60 ELSE 40],
     [s \in {"AAPL", "MSFT"} |-> 10]}

\* custom scenarios: the keys a scenario dict carries and their values
CustomScenarios ==
    {[keys |-> {}, asset_shocks |-> EmptyMap, market_shock |-> 0],
     [keys |-> {"market_shock"}, asset_shocks |-> EmptyMap, market_shock |-> -150000],
     [keys |-> {"asset_shocks"}, asset_shocks |-> [s \in {"AAPL"} |-> -3000],
      market_shock |-> 0]}

RECURSIVE SeqsUpTo(_, _)
\* the lists of at most n elements of S
SeqsUpTo(S, n) ==
    IF n = 0 THEN {<< >>}
    ELSE LET shorter == SeqsUpTo(S, n - 1)
         IN  shorter \cup {Append(q, x) : q \in {r \in shorter : Len(r) = n - 1}, x \in S}

\* worst 21-day sums a long enough history can show, in millionths
WorstMonths == {-150000, -80000}

\* the environment of one call: the download and the history it returns
StressEnvs == [fetch : {"frame", "raise"}, rows : PriceRows, worst_month : WorstMonths]

RECURSIVE SumWeights(_, _)
\* sum(weight * shock for symbol, weight in portfolio.items())
SumWeights(portfolio, shock_of) ==
    IF DOMAIN portfolio = {} THEN 0
    ELSE LET s == CHOOSE x \in DOMAIN portfolio : TRUE
             rest == [x \in DOMAIN portfolio \ {s} |-> portfolio[x]]
         IN  portfolio[s] * shock_of[s] + SumWeights(rest, shock_of)

\* _historical_stress_scenarios: rolling(21).sum().min() is nan unless the
\* returns hold a full window
HistoricalStressScenarios(env) ==
    [portfolio_loss |-> IF PctChangeRows(env.rows) >= rolling_month
                        THEN Num(env.worst_month) ELSE NaN]

\* _market_crash_scenarios: every weight takes the equity shock
MarketCrashScenarios(portfolio) ==
    [k \in 1..Len(equity_shocks) |->
        [portfolio_loss |->
            Num(SumWeights(portfolio, [s \in DOMAIN portfolio |-> equity_shocks[k]]))]]

\* the smallest of a non-empty list of integers
MinOfSeq(seq) == CHOOSE m \in Range(seq) : \A x \in Range(seq) : m <= x

\* _interest_rate_scenarios: the worst of the five rate shocks
InterestRateScenarios(portfolio) ==
    LET total == SumWeights(portfolio, [s \in DOMAIN portfolio |-> 1])
        impacts == [k \in 1..Len(rate_shocks) |-> total * rate_shocks[k] * rate_duration]
    IN  [portfolio_loss |-> Num(MinOfSeq(impacts))]

\* _correlation_breakdown_scenarios
CorrelationBreakdownScenarios == [portfolio_loss |-> Num(correlation_breakdown_loss)]

\* _apply_custom_scenario
ApplyCustomScenario(portfolio, scenario) ==
    LET asset == IF "asset_shocks" \in scenario.keys
                 THEN SumWeights(portfolio,
                        [s \in DOMAIN portfolio |->
                            IF s \in DOMAIN scenario.asset_shocks
                            THEN scenario.asset_shocks[s] ELSE 0])
                 ELSE 0
        market == IF "market_shock" \in scenario.keys THEN scenario.market_shock ELSE 0
    IN  [portfolio_loss |-> Num(asset + market)]

\* all_losses: the categories in insertion order, a list category extended,
\* a dict category appended; 'custom' exists only for a non-empty list
AllLosses(portfolio, scenarios, env) ==
    LET loss(result) == result.portfolio_loss
        crash == MarketCrashScenarios(portfolio)
    IN  <<loss(HistoricalStressScenarios(env))>>
        \o [k \in 1..Len(crash) |-> loss(crash[k])]
        \o <<loss(InterestRateScenarios(portfolio)), loss(CorrelationBreakdownScenarios)>>
        \o [k \in 1..Len(scenarios) |-> loss(ApplyCustomScenario(portfolio, scenarios[k]))]

RECURSIVE PyMinFrom(_, _, _)
PyMinFrom(best, seq, k) ==
    IF k > Len(seq) THEN best
    ELSE PyMinFrom(IF Lt(seq[k], best) THEN seq[k] ELSE best, seq, k + 1)

\* min(all_losses): the first element, replaced by each later one that is < it
PyMin(seq) == PyMinFrom(seq[1], seq, 2)

RECURSIVE SumFloats(_, _)
SumFloats(seq, k) ==
    IF k > Len(seq) THEN Num(0) ELSE Add(seq[k], SumFloats(seq, k + 1))

\* np.mean(all_losses), kept exact as the sum over the count
NpMean(seq) == [sum |-> SumFloats(seq, 1), count |-> Len(seq)]

\* the 'summary' of the result
StressSummary(all_losses) ==
    [worst_case_loss |-> IF Len(all_losses) > 0 THEN PyMin(all_losses) ELSE Num(0),
     average_loss |-> IF Len(all_losses) > 0 THEN NpMean(all_losses)
                      ELSE [sum |-> Num(0), count |-> 1],
     scenarios_tested |-> Len(all_losses),
     losses_exceeding_10pct |->
        Cardinality({k \in 1..Len(all_losses) : Lt(all_losses[k], Num(severe_loss))})]

\* stress_test_portfolio: a failed download leaves returns None, and
\* returns.min() raises
StressTestResult(portfolio, scenarios, env) ==
    IF GetPortfolioReturns(env) = NoReturns THEN Raised("AttributeError")
    ELSE LET all_losses == AllLosses(portfolio, scenarios, env)
         IN  [kind |-> "result", all_losses |-> all_losses,
              summary |-> StressSummary(all_losses)]

StressTestPortfolio(portfolio, scenarios, env) ==
    /\ st_last = NoCall
    /\ st_last' = [kind |-> "call", portfolio |-> portfolio, scenarios |-> scenarios,
                   env |-> env, outcome |-> StressTestResult(portfolio, scenarios, env)]
    /\ UNCHANGED OutsideStress

\* the caller has its answer (or its error)
StressAnswered ==
    /\ st_last # NoCall
    /\ st_last' = NoCall
    /\ UNCHANGED OutsideStress

InitStress == st_last = NoCall

NextStress ==
    \/ \E portfolio \in StressPortfolios, scenarios \in SeqsUpTo(CustomScenarios, MaxCustomScenarios),
          env \in StressEnvs : StressTestPortfolio(portfolio, scenarios, env)
    \/ StressAnswered

(***************************************************************************)
(* RiskManager._historical_var on numbers.  Returns are basis points; the  *)
(* horizons are perfect squares, so sqrt(time_horizon) is exact; a         *)
(* confidence level is in thousandths and a percentile is kept exact as    *)
(* thousand times its value.                                               *)
(***************************************************************************)
\* daily returns, in basis points
ReturnValues == {-300, -100, 0, 200}

\* the non-empty return series of at most MaxReturns rows
ReturnSeries == SeqsUpTo(ReturnValues, MaxReturns) \ {<< >>}

\* confidence levels, in thousandths
HistConfidenceLevels == {500, 950}

Abs(x) == IF x < 0 THEN -x ELSE x

\* np.sqrt(time_horizon) for a perfect square
Sqrt(h) == CHOOSE r \in 0..h : r * r = h

RECURSIVE Insert(_, _)
\* a sorted list with x put in its place
Insert(sorted, x) ==
    IF sorted = << >> THEN <<x>>
    ELSE IF x <= Head(sorted) THEN <<x>> \o sorted
    ELSE <<Head(sorted)>> \o Insert(Tail(sorted), x)

RECURSIVE Sorted(_)
\* the values in ascending order
Sorted(values) ==
    IF values = << >> THEN << >> ELSE Insert(Sorted(Tail(values)), Head(values))

\* np.percentile(values, q) with q in thousandths of the whole: the sorted
\* values are indexed at q * (n - 1) and interpolated linearly
NpPercentile(values, q) ==
    LET n == Len(values)
        position == q * (n - 1)
        k == position \div 1000
        fraction == position % 1000
        sorted == Sorted(values)
        lower == sorted[k + 1]
        upper == sorted[Min(k + 2, n)]
    IN  lower * 1000 + fraction * (upper - lower)

\* (mutant) the returns are scaled by the horizon itself
HistoricalVarScaledByHorizon(returns, confidence_level, time_horizon) ==
    LET scaled_returns == [k \in 1..Len(returns) |-> returns[k] * time_horizon]
        var == NpPercentile(scaled_returns, 1000 - confidence_level)
    IN  [var |-> Abs(var),
         details |-> [method |-> "historical_simulation", sample_size |-> Len(returns),
                      worst_loss |-> MinOfSeq(scaled_returns)]]
\* _historical_var
HistoricalVar(returns, confidence_level, time_horizon) ==
    LET scaled_returns == [k \in 1..Len(returns) |-> returns[k] * Sqrt(time_horizon)]
        var == NpPercentile(scaled_returns, 1000 - confidence_level)
    IN  [var |-> Abs(var),
         details |-> [method |-> "historical_simulation", sample_size |-> Len(returns),
                      worst_loss |-> MinOfSeq(scaled_returns)]]

HistoricalVarCall(returns, confidence_level, time_horizon) ==
    /\ hv_last = NoCall
    /\ hv_last' = [kind |-> "call", returns |-> returns,
                   confidence_level |-> confidence_level, time_horizon |-> time_horizon,
                   outcome |-> HistoricalVar(returns, confidence_level, time_horizon)]
    /\ UNCHANGED OutsideHistVar

\* the caller has its answer
HistoricalVarAnswered ==
    /\ hv_last # NoCall
    /\ hv_last' = NoCall
    /\ UNCHANGED OutsideHistVar

InitHistVar == hv_last = NoCall

NextHistVar ==
    \/ \E returns \in ReturnSeries, c \in HistConfidenceLevels, h \in TimeHorizons :
          HistoricalVarCall(returns, c, h)
    \/ HistoricalVarAnswered

(***************************************************************************)
(* RiskManager._monte_carlo_var and numpy's global random generator.  The  *)
(* generator's state is the seed of its stream (none until something       *)
(* seeds it: the stream then comes from the system's entropy) and the      *)
(* number of values drawn from the stream.  A sample is named by the       *)
(* stream, the position of its first value and its size.                   *)
(***************************************************************************)
\* np.random.seed(42)
mc_seed == 42
\* n_simulations: int = 10000
n_simulations == 10000
\* the np.random.uniform calls of one fallback quote
fallback_quote_draws == 8

\* the return series the two computations are run on
MonteCarloSeries == {<<-300, 200>>, <<-100, 0, 200>>}

\* np.random.seed(seed)
NpRandomSeed(seed) == [seeded |-> TRUE, seed |-> seed, drawn |-> 0]

\* the generator after n more values are drawn
NpRandomAdvance(rng, n) == [rng EXCEPT !.drawn = @ + n]

\* np.random.normal(loc, scale, size) on the generator rng
NpRandomNormal(rng, loc, scale, size) ==
    [stream |-> [seeded |-> rng.seeded, seed |-> rng.seed], first |-> rng.drawn,
     size |-> size, loc |-> loc, scale |-> scale]

\* (mutant) the simulation draws from the generator as it finds it
MonteCarloVarUnseeded(rng, returns, confidence_level, time_horizon) ==
    LET simulated_returns ==
            NpRandomNormal(rng, [mean_of |-> returns, times |-> time_horizon],
                           [std_of |-> returns, times_sqrt |-> time_horizon],
                           n_simulations)
    IN  [result |-> [var |-> [abs_percentile_of |-> simulated_returns,
                              q |-> 1000 - confidence_level],
                     details |-> [method |-> "monte_carlo",
                                  n_simulations |-> n_simulations,
                                  simulated |-> simulated_returns]],
         rng |-> NpRandomAdvance(rng, n_simulations)]
\* _monte_carlo_var: the result and the generator it leaves behind
MonteCarloVar(rng, returns, confidence_level, time_horizon) ==
    LET seeded == NpRandomSeed(mc_seed)
        simulated_returns ==
            NpRandomNormal(seeded, [mean_of |-> returns, times |-> time_horizon],
                           [std_of |-> returns, times_sqrt |-> time_horizon],
                           n_simulations)
    IN  [result |-> [var |-> [abs_percentile_of |-> simulated_returns,
                              q |-> 1000 - confidence_level],
                     details |-> [method |-> "monte_carlo",
                                  n_simulations |-> n_simulations,
                                  simulated |-> simulated_returns]],
         rng |-> NpRandomAdvance(seeded, n_simulations)]

\* one computation: its inputs, the generator it found, its result
MonteCarloCall(returns, confidence_level, time_horizon) ==
    [kind |-> "call", returns |-> returns, confidence_level |-> confidence_level,
     time_horizon |-> time_horizon, rng_before |-> np_random,
     outcome |-> MonteCarloVar(np_random, returns, confidence_level, time_horizon).result]

\* a computation runs; mc_first keeps an earlier computation to compare with
MonteCarloVarCall(returns, confidence_level, time_horizon) ==
    LET call == MonteCarloCall(returns, confidence_level, time_horizon)
    IN  /\ mc_last' = call
        /\ mc_first' \in (IF mc_first = NoCall THEN {call} ELSE {mc_first, call})
        /\ np_random' = MonteCarloVar(np_random, returns, confidence_level,
                                      time_horizon).rng
        /\ UNCHANGED OutsideMonteCarlo

\* IndianMarketService._get_fallback_data draws from the same generator
FallbackQuoteDraws ==
    /\ np_random.drawn % n_simulations < MaxDraws * fallback_quote_draws
    /\ np_random' = NpRandomAdvance(np_random, fallback_quote_draws)
    /\ UNCHANGED <<mc_first, mc_last>>
    /\ UNCHANGED OutsideMonteCarlo

InitMonteCarlo ==
    /\ np_random = [seeded |-> FALSE, seed |-> 0, drawn |-> 0]
    /\ mc_first = NoCall
    /\ mc_last = NoCall

NextMonteCarlo ==
    \/ \E returns \in MonteCarloSeries, c \in ConfidenceLevels, h \in TimeHorizons :
          MonteCarloVarCall(returns, c, h)
    \/ FallbackQuoteDraws

(***************************************************************************)
(* PortfolioOptimizer._hierarchical_risk_parity on numbers.  A market      *)
(* gives each symbol a standard deviation and each pair a correlation in   *)
(* halves; covariances are counted in halves, squared distances            *)
(* (1 - corr) / 2 in quarters, and every quotient is an exact fraction.    *)
(* A fraction with denominator 0 is what the float division gives there:   *)
(* 0/0 is nan, x/0 is inf.                                                 *)
(***************************************************************************)
RECURSIVE GCD(_, _)
GCD(a, b) == IF b = 0 THEN a ELSE GCD(b, a % b)

Sign(x) == IF x < 0 THEN -1 ELSE IF x > 0 THEN 1 ELSE 0

\* n / d in lowest terms, the denominator not negative
Frac(n, d) ==
    IF d = 0 THEN [num |-> Sign(n), den |-> 0]
    ELSE LET g == GCD(Abs(n), Abs(d))
         IN  [num |-> (Sign(d) * n) \div g, den |-> Abs(d) \div g]

FracAdd(a, b) == Frac(a.num * b.den + b.num * a.den, a.den * b.den)
FracMul(a, b) == Frac(a.num * b.num, a.den * b.den)
FracDiv(a, b) == Frac(a.num * b.den, a.den * b.num)
FracLess(a, b) == a.num * b.den < b.num * a.den

HrpSymbols == {"A", "B", "C", "D"}

\* the markets: std per symbol, correlation in halves per pair of symbols
HrpMarkets ==
    {[name |-> "equicorrelated",
      std |-> [s \in HrpSymbols |-> IF s = "C" THEN 2 ELSE 1],
      corr2 |-> [p \in {q \in SUBSET HrpSymbols : Cardinality(q) = 2} |-> 1]],
     [name |-> "uncorrelated",
      std |-> [s \in HrpSymbols |-> IF s \in {"B", "D"} THEN 2 ELSE 1],
      corr2 |-> [p \in {q \in SUBSET HrpSymbols : Cardinality(q) = 2} |-> 0]],
     [name |-> "one_pair",
      std |-> [s \in HrpSymbols |-> IF s = "C" THEN 2 ELSE 1],
      corr2 |-> [p \in {q \in SUBSET HrpSymbols : Cardinality(q) = 2} |->
                    IF p = {"A", "B"} THEN 1 ELSE 0]],
     [name |-> "opposed",
      std |-> [s \in HrpSymbols |-> 1],
      corr2 |-> [p \in {q \in SUBSET HrpSymbols : Cardinality(q) = 2} |->
                    IF p \in {{"A", "B"}, {"C", "D"}} THEN -2 ELSE 0]]}

\* the column lists: two to MaxAssets different symbols in any order
HrpColumns ==
    {c \in SeqsUpTo(HrpSymbols, MaxAssets) :
        Len(c) >= 2 /\ Cardinality(Range(c)) = Len(c)}

\* returns.cov(), in halves
Cov(market, a, b) ==
    IF a = b THEN 2 * market.std[a] * market.std[a]
    ELSE market.corr2[{a, b}] * market.std[a] * market.std[b]

\* distance_matrix squared, in quarters: (1 - corr) / 2
Distance2(market, a, b) == IF a = b THEN 0 ELSE 2 - market.corr2[{a, b}]

RECURSIVE SumOver(_, _, _, _)
\* the sum of f[a, b] for a in the list xs and b in the list ys
SumOver(f, xs, ys, k) ==
    IF k > Len(xs) * Len(ys) THEN 0
    ELSE f[xs[((k - 1) \div Len(ys)) + 1], ys[((k - 1) % Len(ys)) + 1]]
         + SumOver(f, xs, ys, k + 1)

\* linkage(method='ward'): the distance, squared, between two clusters,
\* as the Lance-Williams update gives it from the distances of their leaves
WardDistance2(market, x, y) ==
    LET d2 == [a \in HrpSymbols, b \in HrpSymbols |-> Distance2(market, a, b)]
        nx == Len(x)
        ny == Len(y)
    IN  Frac(2 * SumOver(d2, x, y, 1) * nx * ny - SumOver(d2, x, x, 1) * ny * ny
               - SumOver(d2, y, y, 1) * nx * nx,
             (nx + ny) * nx * ny)

\* the row of the linkage matrix: the child with the smaller id comes first
Merged(x, y, id) ==
    [id |-> id, leaves |-> IF x.id < y.id THEN x.leaves \o y.leaves
                           ELSE y.leaves \o x.leaves]

RECURSIVE LeafOrders(_, _, _)
\* get_cluster_order over every linkage matrix ward can give: the closest
\* pair of clusters is merged, and among equally close pairs any one
LeafOrders(market, clusters, next_id) ==
    IF Cardinality(clusters) = 1 THEN {c.leaves : c \in clusters}
    ELSE LET pairs == {p \in SUBSET clusters : Cardinality(p) = 2}
             dist(p) == LET x == CHOOSE c \in p : TRUE
                            y == CHOOSE c \in p \ {x} : TRUE
                        IN  WardDistance2(market, x.leaves, y.leaves)
             closest == {p \in pairs : \A q \in pairs : ~FracLess(dist(q), dist(p))}
         IN  UNION {LET x == CHOOSE c \in p : TRUE
                        y == CHOOSE c \in p \ {x} : TRUE
                    IN  LeafOrders(market, (clusters \ p) \cup {Merged(x, y, next_id)},
                                   next_id + 1) : p \in closest}

\* the cluster orders of a price frame with these columns
ClusterOrders(market, columns) ==
    LeafOrders(market, {[id |-> k - 1, leaves |-> <<columns[k]>>] : k \in 1..Len(columns)},
               Len(columns))

RECURSIVE SumFracs(_, _)
SumFracs(f, items) ==
    IF items = << >> THEN Frac(0, 1) ELSE FracAdd(f[Head(items)], SumFracs(f, Tail(items)))

\* get_cluster_var: the variance of the inverse-variance portfolio of a cluster
GetClusterVar(market, cluster_items) ==
    LET inv_diag == [s \in Range(cluster_items) |-> Frac(1, Cov(market, s, s))]
        total == SumFracs(inv_diag, cluster_items)
        weights == [s \in Range(cluster_items) |-> FracDiv(inv_diag[s], total)]
        row == [s \in Range(cluster_items) |->
                   SumFracs([t \in Range(cluster_items) |->
                                FracMul(weights[t], Frac(Cov(market, s, t), 1))],
                            cluster_items)]
    IN  SumFracs([s \in Range(cluster_items) |-> FracMul(weights[s], row[s])],
                 cluster_items)

RECURSIVE RecursiveBisectionSharingRight(_, _, _)
\* (mutant) both halves are multiplied by the left half's factor
RecursiveBisectionSharingRight(market, items, weights) ==
    IF Len(items) = 1 THEN weights
    ELSE LET mid == Len(items) \div 2
             left_cluster == SubSeq(items, 1, mid)
             right_cluster == SubSeq(items, mid + 1, Len(items))
             left_var == GetClusterVar(market, left_cluster)
             right_var == GetClusterVar(market, right_cluster)
             total_var == FracAdd(left_var, right_var)
             left_weight == FracDiv(right_var, total_var)
             right_weight == FracDiv(right_var, total_var)
             updated == [s \in DOMAIN weights |->
                            IF s \in Range(left_cluster) THEN FracMul(weights[s], left_weight)
                            ELSE IF s \in Range(right_cluster)
                                 THEN FracMul(weights[s], right_weight)
                            ELSE weights[s]]
         IN  RecursiveBisectionSharingRight(market, right_cluster,
                 RecursiveBisectionSharingRight(market, left_cluster, updated))
RECURSIVE RecursiveBisection(_, _, _)
\* recursive_bisection: the weights after the items are split and each half
\* is scaled by the other half's share of the variance
RecursiveBisection(market, items, weights) ==
    IF Len(items) = 1 THEN weights
    ELSE LET mid == Len(items) \div 2
             left_cluster == SubSeq(items, 1, mid)
             right_cluster == SubSeq(items, mid + 1, Len(items))
             left_var == GetClusterVar(market, left_cluster)
             right_var == GetClusterVar(market, right_cluster)
             total_var == FracAdd(left_var, right_var)
             left_weight == FracDiv(right_var, total_var)
             right_weight == FracDiv(left_var, total_var)
             updated == [s \in DOMAIN weights |->
                            IF s \in Range(left_cluster) THEN FracMul(weights[s], left_weight)
                            ELSE IF s \in Range(right_cluster)
                                 THEN FracMul(weights[s], right_weight)
                            ELSE weights[s]]
         IN  RecursiveBisection(market, right_cluster,
                 RecursiveBisection(market, left_cluster, updated))

\* calculate_hrp_weights: weights start at 1.0 for every column
CalculateHrpWeights(market, columns, cluster_order) ==
    RecursiveBisection(market, cluster_order, [s \in Range(columns) |-> Frac(1, 1)])

\* the result of _hierarchical_risk_parity for one cluster order
HrpResult(market, columns, cluster_order) ==
    [weights |-> CalculateHrpWeights(market, columns, cluster_order),
     method |-> "hierarchical_risk_parity", objective |-> "hierarchical_diversification",
     cluster_order |-> cluster_order]

HierarchicalRiskParityCall(market, columns, cluster_order) ==
    /\ hrp_last = NoCall
    /\ cluster_order \in ClusterOrders(market, columns)
    /\ hrp_last' = [kind |-> "call", market |-> market, columns |-> columns,
                    outcome |-> HrpResult(market, columns, cluster_order)]
    /\ UNCHANGED OutsideHrp

\* the caller has its weights
HrpAnswered ==
    /\ hrp_last # NoCall
    /\ hrp_last' = NoCall
    /\ UNCHANGED OutsideHrp

InitHrp == hrp_last = NoCall

NextHrp ==
    \/ \E market \in HrpMarkets, columns \in HrpColumns :
          \E cluster_order \in ClusterOrders(market, columns) :
              HierarchicalRiskParityCall(market, columns, cluster_order)
    \/ HrpAnswered

(***************************************************************************)
(* AITradingEngine.generate_trading_signals.  The coroutines it awaits     *)
(* never suspend, so one call is one step.  A risk level is in tenths; a   *)
(* momentum strength is in thirds.                                         *)
(***************************************************************************)
SignalSymbols == {"AAPL", "MSFT"}

known_strategies == {"momentum", "mean_reversion", "ml_ensemble"}
StrategyArgs == known_strategies \cup {"scalping"}

RiskLevels == {5}

\* len(X) < 50: the ensemble needs this many rows
min_ensemble_rows == 50
\* latest['RSI'] > 70
rsi_overbought == 70
\* latest['RSI'] < 30
rsi_oversold == 30
\* signal_strength > 0.3, signal_strength < -0.3: the threshold, in tenths
action_threshold == 3

NoFeatures == [kind |-> "None"]

\* what _extract_features can return: None (no data, or an exception), or
\* the frame after dropna() with the latest row's indicators; the frame of
\* a history too short for its indicators has no rows
FeatureFrames ==
    {NoFeatures,
     [kind |-> "frame", rows |-> 0, rsi |-> 50, macd_above |-> FALSE, close_above |-> FALSE],
     [kind |-> "frame", rows |-> 30, rsi |-> 75, macd_above |-> TRUE, close_above |-> TRUE],
     [kind |-> "frame", rows |-> 60, rsi |-> 25, macd_above |-> FALSE, close_above |-> FALSE],
     [kind |-> "frame", rows |-> 60, rsi |-> 50, macd_above |-> TRUE, close_above |-> FALSE]}

\* the environment of one call: the features of each symbol, whether a
\* training succeeds, and what the trained models predict
SignalEnvs ==
    [features : [SignalSymbols -> FeatureFrames],
     train : {"ok", "raise"},
     predict : {"up", "raise"}]

\* (mutant) an action needs two of the three votes
MomentumSignalNeedingTwoVotes(features, risk_level) ==
    IF features.rows = 0 THEN Raised("IndexError")
    ELSE LET rsi_signal == IF features.rsi > rsi_overbought THEN 1
                           ELSE IF features.rsi < rsi_oversold THEN -1 ELSE 0
             macd_signal == IF features.macd_above THEN 1 ELSE -1
             sma_signal == IF features.close_above THEN 1 ELSE -1
             thirds == rsi_signal + macd_signal + sma_signal
         IN  [kind |-> "signal",
              action |-> IF 10 * thirds > 3 * (action_threshold + 1) THEN "BUY"
                         ELSE IF 10 * thirds < -3 * (action_threshold + 1) THEN "SELL"
                         ELSE "HOLD",
              strength |-> Abs(thirds),
              position_size |-> Abs(thirds) * risk_level,
              confidence |-> Min(2 * Abs(thirds) + 3, 6),
              indicators |-> {"RSI", "MACD", "SMA_20"}]

\* _momentum_signal: features.iloc[-1] raises on a frame without rows; the
\* strength thirds/3 is compared with 0.3 as 10 * thirds with 3 * 3
MomentumSignal(features, risk_level) ==
    IF features.rows = 0 THEN Raised("IndexError")
    ELSE LET rsi_signal == IF features.rsi > rsi_overbought THEN 1
                           ELSE IF features.rsi < rsi_oversold THEN -1 ELSE 0
             macd_signal == IF features.macd_above THEN 1 ELSE -1
             sma_signal == IF features.close_above THEN 1 ELSE -1
             thirds == rsi_signal + macd_signal + sma_signal
         IN  [kind |-> "signal",
              action |-> IF 10 * thirds > 3 * action_threshold THEN "BUY"
                         ELSE IF 10 * thirds < -3 * action_threshold THEN "SELL"
                         ELSE "HOLD",
              strength |-> Abs(thirds),
              position_size |-> Abs(thirds) * risk_level,
              confidence |-> Min(2 * Abs(thirds) + 3, 6),
              indicators |-> {"RSI", "MACD", "SMA_20"}]

\* _mean_reversion_signal
MeanReversionSignal(features, risk_level) ==
    IF features.rows = 0 THEN Raised("IndexError")
    ELSE [kind |-> "signal", action |-> "mean_reversion", strength |-> features.rsi,
          position_size |-> risk_level, confidence |-> 0,
          indicators |-> {"BB_Position", "Price_Position", "RSI"}]

\* dict[key] = value
SetKey(dict, key, value) ==
    [k \in DOMAIN dict \cup {key} |-> IF k = key THEN value ELSE dict[k]]

\* (mutant) the models are stored before the step that can fail
TrainEnsembleModelStoringModelsFirst(symbol, env, cache) ==
    LET run == IF symbol \in DOMAIN cache.models THEN cache.models[symbol] + 1 ELSE 1
    IN  IF env.train = "ok"
        THEN [models |-> SetKey(cache.models, symbol, run),
              scalers |-> SetKey(cache.scalers, symbol, run)]
        ELSE [models |-> SetKey(cache.models, symbol, run), scalers |-> cache.scalers]
\* _train_ensemble_model: the models and the scaler of one training run are
\* stored together at its end; a failure is logged and stores nothing.  A
\* run is named by its number among the runs stored for the symbol
TrainEnsembleModel(symbol, env, cache) ==
    IF env.train = "ok"
    THEN LET run == IF symbol \in DOMAIN cache.models THEN cache.models[symbol] + 1 ELSE 1
         IN  [models |-> SetKey(cache.models, symbol, run),
              scalers |-> SetKey(cache.scalers, symbol, run)]
    ELSE cache

\* _ml_ensemble_signal: the signal (or the error) and the model cache afterwards
MlEnsembleSignal(symbol, features, risk_level, env, cache) ==
    IF features.rows < min_ensemble_rows
    THEN \* the momentum signal; its error is caught and momentum is run again
         [signal |-> MomentumSignal(features, risk_level), cache |-> cache]
    ELSE LET trained == IF symbol \notin DOMAIN cache.models
                        THEN TrainEnsembleModel(symbol, env, cache)
                        ELSE cache
         IN  IF /\ symbol \in DOMAIN trained.models
                /\ symbol \in DOMAIN trained.scalers
                /\ env.predict # "raise"
             THEN [signal |-> [kind |-> "signal", action |-> "BUY", strength |-> env.predict,
                               position_size |-> risk_level, confidence |-> 0,
                               model_type |-> "ml_ensemble"],
                   cache |-> trained]
             ELSE [signal |-> MomentumSignal(features, risk_level), cache |-> trained]

\* (mutant) an unrecognised strategy gets the momentum signal
StrategySignalDefaultingToMomentum(strategy_type, symbol, features, risk_level, env, cache) ==
    IF strategy_type = "mean_reversion"
    THEN [signal |-> MeanReversionSignal(features, risk_level), cache |-> cache]
    ELSE IF strategy_type = "ml_ensemble"
    THEN MlEnsembleSignal(symbol, features, risk_level, env, cache)
    ELSE [signal |-> MomentumSignal(features, risk_level), cache |-> cache]
\* the if/elif/else chain on strategy_type
StrategySignal(strategy_type, symbol, features, risk_level, env, cache) ==
    IF strategy_type = "momentum"
    THEN [signal |-> MomentumSignal(features, risk_level), cache |-> cache]
    ELSE IF strategy_type = "mean_reversion"
    THEN [signal |-> MeanReversionSignal(features, risk_level), cache |-> cache]
    ELSE IF strategy_type = "ml_ensemble"
    THEN MlEnsembleSignal(symbol, features, risk_level, env, cache)
    ELSE MlEnsembleSignal(symbol, features, risk_level, env, cache)

RECURSIVE SignalsFrom(_, _, _, _, _, _, _)
\* the loop over symbols from position k on: a symbol without features is
\* skipped, an error ends the call
SignalsFrom(symbols, k, strategy_type, risk_level, env, cache, signals) ==
    IF k > Len(symbols)
    THEN [kind |-> "result", signals |-> signals, strategy_type |-> strategy_type,
          risk_level |-> risk_level, cache |-> cache]
    ELSE LET symbol == symbols[k]
             features == env.features[symbol]
         IN  IF features = NoFeatures
             THEN SignalsFrom(symbols, k + 1, strategy_type, risk_level, env, cache, signals)
             ELSE LET made == StrategySignal(strategy_type, symbol, features, risk_level,
                                             env, cache)
                  IN  IF made.signal.kind = "raise"
                      THEN [kind |-> "raise", error |-> made.signal.error,
                            cache |-> made.cache]
                      ELSE SignalsFrom(symbols, k + 1, strategy_type, risk_level, env,
                                       made.cache,
                                       [s \in DOMAIN signals \cup {symbol} |->
                                           IF s = symbol THEN made.signal ELSE signals[s]])

\* generate_trading_signals
GenerateTradingSignalsResult(symbols, strategy_type, risk_level, env, cache) ==
    SignalsFrom(symbols, 1, strategy_type, risk_level, env, cache, EmptyMap)

GenerateTradingSignals(symbols, strategy_type, risk_level, env) ==
    LET outcome == GenerateTradingSignalsResult(symbols, strategy_type, risk_level, env,
                                                [models |-> ai_models, scalers |-> ai_scalers])
    IN  /\ ts_last = NoCall
        /\ ts_last' = [kind |-> "call", symbols |-> symbols, strategy_type |-> strategy_type,
                       risk_level |-> risk_level, env |-> env,
                       cache_before |-> [models |-> ai_models, scalers |-> ai_scalers],
                       outcome |-> outcome]
        /\ ai_models' = outcome.cache.models
        /\ ai_scalers' = outcome.cache.scalers
        /\ UNCHANGED OutsideSignals

\* the caller has its signals (or its error); the trained models stay
SignalsAnswered ==
    /\ ts_last # NoCall
    /\ ts_last' = NoCall
    /\ UNCHANGED <<ai_models, ai_scalers>>
    /\ UNCHANGED OutsideSignals

InitSignals ==
    /\ ai_models = EmptyMap
    /\ ai_scalers = EmptyMap
    /\ ts_last = NoCall

NextSignals ==
    \/ \E symbols \in SeqsUpTo(SignalSymbols, MaxSignalSymbols),
          strategy_type \in StrategyArgs, risk_level \in RiskLevels, env \in SignalEnvs :
            GenerateTradingSignals(symbols, strategy_type, risk_level, env)
    \/ SignalsAnswered

(***************************************************************************)
(* get_real_time_quote called on its own, one call after another.          *)
(***************************************************************************)
\* the symbol strings the calls are made with
QuoteSymbols == {"AAPL", "aapl", "MSFT"}

\* one call of get_real_time_quote, from entry to return or raise
GetRealTimeQuoteCall(symbol, env) ==
    /\ gq_last = NoCall
    /\ LET r == GetRealTimeQuote(symbol, redis_quotes, env,
                                 alpha_vantage_key, polygon_key)
       IN  /\ redis_quotes' = r.store
           /\ gq_last' = [kind |-> "call", symbol |-> symbol, env |-> env,
                          store_before |-> redis_quotes,
                          result |-> r.result, tried |-> r.tried]
    /\ UNCHANGED <<alpha_vantage_key, polygon_key, gq_prev>>
    /\ UNCHANGED OutsideQuote

\* the caller has its answer; the next call finds this one before it
QuoteAnswered ==
    /\ gq_last # NoCall
    /\ gq_prev' = [kind |-> "call", symbol |-> gq_last.symbol,
                   result |-> gq_last.result, tried |-> gq_last.tried,
                   store |-> redis_quotes]
    /\ gq_last' = NoCall
    /\ UNCHANGED mdVars
    /\ UNCHANGED OutsideQuote

\* redis drops a quote key when its 60 seconds have run out
ExpireQuote(key) ==
    /\ gq_last = NoCall
    /\ key \in DOMAIN redis_quotes
    /\ redis_quotes' = DelKey(redis_quotes, key)
    /\ UNCHANGED <<alpha_vantage_key, polygon_key, gqVars>>
    /\ UNCHANGED OutsideQuote

InitQuote ==
    /\ gq_prev = NoCall
    /\ gq_last = NoCall

NextQuote ==
    \/ \E symbol \in QuoteSymbols, env \in FetchEnvs : GetRealTimeQuoteCall(symbol, env)
    \/ QuoteAnswered
    \/ \E symbol \in QuoteSymbols : ExpireQuote(QuoteKey(Upper(symbol)))

(***************************************************************************)
(* The feed loops in full: start_real_time_feeds, the polling cycle of     *)
(* _start_yahoo_websocket with its two for loops, subscribe_to_symbol and  *)
(* unsubscribe_from_symbol called at any time, and cleanup.                *)
(***************************************************************************)
NotifySymbols == {"AAPL", "MSFT"}
FeedCallbacks == {"on_quote", "on_alert"}

\* how often x is in a list
Count(seq, x) == Cardinality({k \in 1..Len(seq) : seq[k] = x})

\* subscribe_to_symbol: the subscribers after the call
Subscribed(subs, symbol, callback) ==
    LET made == IF symbol \notin DOMAIN subs THEN SetKey(subs, symbol, << >>) ELSE subs
    IN  [made EXCEPT ![symbol] = Append(@, callback)]

\* (mutant) the callback is removed and its list stays, empty or not
UnsubscribedKeepingEmptyList(subs, symbol, callback) ==
    IF symbol \notin DOMAIN subs THEN subs
    ELSE IF callback \notin Range(subs[symbol]) THEN subs
    ELSE [subs EXCEPT ![symbol] = RemoveFirst(@, callback)]

\* unsubscribe_from_symbol: the subscribers after the call (ValueError is passed)
Unsubscribed(subs, symbol, callback) ==
    IF symbol \notin DOMAIN subs THEN subs
    ELSE IF callback \notin Range(subs[symbol]) THEN subs
    ELSE LET removed == [subs EXCEPT ![symbol] = RemoveFirst(@, callback)]
         IN  IF removed[symbol] = << >> THEN DelKey(removed, symbol) ELSE removed

\* the (symbol, callback) registrations of a subscribers map
Registered(subs) ==
    {p \in NotifySymbols \X FeedCallbacks :
        p[1] \in DOMAIN subs /\ p[2] \in Range(subs[p[1]])}

RegisteredOnce(subs) == {p \in Registered(subs) : Count(subs[p[1]], p[2]) = 1}

\* no inner for loop is running
NoCursor == [symbol |-> "", idx |-> 0, attached |-> FALSE]

\* the iterator holds the list object it started on: once the key is deleted
\* that object is out of the dict (and empty), whatever is subscribed later
Detach(cur, subs) ==
    IF cur.attached /\ cur.symbol \notin DOMAIN subs
    THEN [cur EXCEPT !.attached = FALSE] ELSE cur

\* the list the inner for loop iterates
IteratedList == IF fd_cur.attached THEN subscribers[fd_cur.symbol] ELSE << >>

\* what a callback does when awaited
CallbackEffects ==
    [kind : {"return", "raise"}, callback : {""}]
        \cup [kind : {"unsubscribe"}, callback : FeedCallbacks]

\* the sorted list of the symbols of a set (the order of quotes.items())
RECURSIVE SymbolsInOrder(_)
SymbolsInOrder(set) ==
    IF set = {} THEN << >>
    ELSE LET first == IF "AAPL" \in set THEN "AAPL" ELSE CHOOSE x \in set : TRUE
         IN  <<first>> \o SymbolsInOrder(set \ {first})

\* the event loop runs the task lifespan created: start_real_time_feeds sets
\* is_running and hands both loops to gather
FeedTaskStarts ==
    /\ fd_op = NoCall
    /\ fd_pc = "created"
    /\ is_running' = TRUE
    /\ fd_pc' = "test"
    /\ fd_crypto' = "test"
    /\ UNCHANGED <<subscribers, fd_cleaned, fd_late, fd_obtained, fd_quotes, fd_cur,
                   fd_stable, fd_invoked, fd_op>>
    /\ UNCHANGED OutsideFeed

\* while self.is_running: ... if self.subscribers: get_batch_quotes is awaited
YahooTest ==
    /\ fd_op = NoCall
    /\ fd_pc = "test"
    /\ IF ~is_running
       THEN /\ fd_pc' = "stopped"
            /\ UNCHANGED <<fd_late, fd_stable>>
       ELSE IF DOMAIN subscribers # {}
       THEN /\ fd_pc' = "polling"
            /\ fd_late' = (fd_late \/ fd_cleaned)
            /\ fd_stable' = RegisteredOnce(subscribers)
       ELSE /\ fd_pc' = "sleeping"
            /\ fd_late' = (fd_late \/ fd_cleaned)
            /\ UNCHANGED fd_stable
    /\ UNCHANGED <<is_running, subscribers, fd_crypto, fd_cleaned, fd_obtained,
                   fd_quotes, fd_cur, fd_invoked, fd_op>>
    /\ UNCHANGED OutsideFeed

\* get_batch_quotes returns the quotes of some of the symbols polled
PollReturns(obtained) ==
    /\ fd_op = NoCall
    /\ fd_pc = "polling"
    /\ fd_pc' = "notify"
    /\ fd_obtained' = obtained
    /\ fd_quotes' = SymbolsInOrder(obtained)
    /\ UNCHANGED <<is_running, subscribers, fd_crypto, fd_cleaned, fd_late, fd_cur,
                   fd_stable, fd_invoked, fd_op>>
    /\ UNCHANGED OutsideFeed

\* for symbol, quote in quotes.items(): if symbol in self.subscribers: iter(list)
NextSymbol ==
    /\ fd_op = NoCall
    /\ fd_pc = "notify"
    /\ fd_cur = NoCursor
    /\ IF fd_quotes = << >>
       THEN /\ fd_pc' = "cycle_done"
            /\ UNCHANGED <<fd_quotes, fd_cur>>
       ELSE /\ fd_quotes' = Tail(fd_quotes)
            /\ fd_cur' = IF Head(fd_quotes) \in DOMAIN subscribers
                         THEN [symbol |-> Head(fd_quotes), idx |-> 0, attached |-> TRUE]
                         ELSE NoCursor
            /\ UNCHANGED fd_pc
    /\ UNCHANGED <<is_running, subscribers, fd_crypto, fd_cleaned, fd_late, fd_obtained,
                   fd_stable, fd_invoked, fd_op>>
    /\ UNCHANGED OutsideFeed

\* the iterator yields list[idx] and the callback is awaited; what it raises is
\* logged, and it may unsubscribe a callback of the symbol (itself or another)
InvokeCallback(effect) ==
    /\ fd_op = NoCall
    /\ fd_pc = "notify"
    /\ fd_cur # NoCursor
    /\ fd_cur.idx < Len(IteratedList)
    /\ LET callback == IteratedList[fd_cur.idx + 1]
           pair == <<fd_cur.symbol, callback>>
           after == IF effect.kind = "unsubscribe"
                    THEN Unsubscribed(subscribers, fd_cur.symbol, effect.callback)
                    ELSE subscribers
       IN  /\ fd_invoked' =
                 SetKey(fd_invoked, pair,
                        IF pair \in DOMAIN fd_invoked THEN 2 ELSE 1)
           /\ subscribers' = after
           /\ fd_cur' = Detach([fd_cur EXCEPT !.idx = @ + 1], after)
           /\ fd_stable' = IF after # subscribers
                           THEN fd_stable \ {<<fd_cur.symbol, effect.callback>>}
                           ELSE fd_stable
    /\ UNCHANGED <<is_running, fd_pc, fd_crypto, fd_cleaned, fd_late, fd_obtained,
                   fd_quotes, fd_op>>
    /\ UNCHANGED OutsideFeed

\* the iterator finds no element at idx: the inner for loop is over
ListExhausted ==
    /\ fd_op = NoCall
    /\ fd_pc = "notify"
    /\ fd_cur # NoCursor
    /\ fd_cur.idx >= Len(IteratedList)
    /\ fd_cur' = NoCursor
    /\ UNCHANGED <<is_running, subscribers, fd_pc, fd_crypto, fd_cleaned, fd_late,
                   fd_obtained, fd_quotes, fd_stable, fd_invoked, fd_op>>
    /\ UNCHANGED OutsideFeed

\* the cycle is over: await asyncio.sleep(1)
CycleEnds ==
    /\ fd_op = NoCall
    /\ fd_pc = "cycle_done"
    /\ fd_pc' = "sleeping"
    /\ fd_obtained' = {}
    /\ fd_stable' = {}
    /\ fd_invoked' = EmptyMap
    /\ UNCHANGED <<is_running, subscribers, fd_crypto, fd_cleaned, fd_late, fd_quotes,
                   fd_cur, fd_op>>
    /\ UNCHANGED OutsideFeed

\* the timer of asyncio.sleep(1) of the yahoo loop runs out
YahooTimer ==
    /\ fd_op = NoCall
    /\ fd_pc = "sleeping"
    /\ fd_pc' = "test"
    /\ UNCHANGED <<is_running, subscribers, fd_crypto, fd_cleaned, fd_late, fd_obtained,
                   fd_quotes, fd_cur, fd_stable, fd_invoked, fd_op>>
    /\ UNCHANGED OutsideFeed

\* _start_crypto_websocket: while self.is_running: await asyncio.sleep(1)
CryptoTest ==
    /\ fd_op = NoCall
    /\ fd_crypto = "test"
    /\ fd_crypto' = IF is_running THEN "sleeping" ELSE "stopped"
    /\ UNCHANGED <<is_running, subscribers, fd_pc, fd_cleaned, fd_late, fd_obtained,
                   fd_quotes, fd_cur, fd_stable, fd_invoked, fd_op>>
    /\ UNCHANGED OutsideFeed

\* the timer of asyncio.sleep(1) of the crypto loop runs out
CryptoTimer ==
    /\ fd_op = NoCall
    /\ fd_crypto = "sleeping"
    /\ fd_crypto' = "test"
    /\ UNCHANGED <<is_running, subscribers, fd_pc, fd_cleaned, fd_late, fd_obtained,
                   fd_quotes, fd_cur, fd_stable, fd_invoked, fd_op>>
    /\ UNCHANGED OutsideFeed

\* subscribe_to_symbol, called by any task while the yahoo loop is suspended
\* in get_batch_quotes or in a sleep
SubscribeCall(symbol, callback) ==
    /\ fd_op = NoCall
    /\ fd_pc # "notify"
    /\ symbol \in DOMAIN subscribers => Len(subscribers[symbol]) < MaxRegistrations
    /\ subscribers' = Subscribed(subscribers, symbol, callback)
    /\ fd_op' = [kind |-> "call", op |-> "subscribe", symbol |-> symbol,
                 callback |-> callback, before |-> subscribers]
    /\ fd_stable' = fd_stable \ {<<symbol, callback>>}
    /\ UNCHANGED <<is_running, fd_pc, fd_crypto, fd_cleaned, fd_late, fd_obtained,
                   fd_quotes, fd_cur, fd_invoked>>
    /\ UNCHANGED OutsideFeed

\* unsubscribe_from_symbol, called by any task while the yahoo loop is
\* suspended in get_batch_quotes or in a sleep
UnsubscribeCall(symbol, callback) ==
    /\ fd_op = NoCall
    /\ fd_pc # "notify"
    /\ LET after == Unsubscribed(subscribers, symbol, callback)
       IN  /\ subscribers' = after
           /\ fd_cur' = Detach(fd_cur, after)
    /\ fd_op' = [kind |-> "call", op |-> "unsubscribe", symbol |-> symbol,
                 callback |-> callback, before |-> subscribers]
    /\ fd_stable' = fd_stable \ {<<symbol, callback>>}
    /\ UNCHANGED <<is_running, fd_pc, fd_crypto, fd_cleaned, fd_late, fd_obtained,
                   fd_quotes, fd_invoked>>
    /\ UNCHANGED OutsideFeed

\* the subscribe or unsubscribe call has returned
FeedOpReturns ==
    /\ fd_op # NoCall
    /\ fd_op' = NoCall
    /\ UNCHANGED <<is_running, subscribers, fd_pc, fd_crypto, fd_cleaned, fd_late,
                   fd_obtained, fd_quotes, fd_cur, fd_stable, fd_invoked>>
    /\ UNCHANGED OutsideFeed

\* lifespan, after its yield: await market_service.cleanup()
CleanupCall ==
    /\ fd_op = NoCall
    /\ ~fd_cleaned
    /\ is_running' = FALSE
    /\ fd_cleaned' = TRUE
    /\ UNCHANGED <<subscribers, fd_pc, fd_crypto, fd_late, fd_obtained, fd_quotes,
                   fd_cur, fd_stable, fd_invoked, fd_op>>
    /\ UNCHANGED OutsideFeed

\* lifespan has created the task of start_real_time_feeds; it has not run yet
InitFeed ==
    /\ fd_pc = "created"
    /\ fd_crypto = "created"
    /\ fd_cleaned = FALSE
    /\ fd_late = FALSE
    /\ fd_obtained = {}
    /\ fd_quotes = << >>
    /\ fd_cur = NoCursor
    /\ fd_stable = {}
    /\ fd_invoked = EmptyMap
    /\ fd_op = NoCall

NextFeed ==
    \/ FeedTaskStarts
    \/ YahooTest
    \/ \E obtained \in SUBSET NotifySymbols : PollReturns(obtained)
    \/ NextSymbol
    \/ \E effect \in CallbackEffects : InvokeCallback(effect)
    \/ ListExhausted
    \/ CycleEnds
    \/ YahooTimer
    \/ CryptoTest
    \/ CryptoTimer
    \/ \E symbol \in NotifySymbols, callback \in FeedCallbacks : SubscribeCall(symbol, callback)
    \/ \E symbol \in NotifySymbols, callback \in FeedCallbacks : UnsubscribeCall(symbol, callback)
    \/ FeedOpReturns
    \/ CleanupCall

\* any sequence of subscribe_to_symbol and unsubscribe_from_symbol calls
NextSubscribers ==
    \/ \E symbol \in NotifySymbols, callback \in FeedCallbacks : SubscribeCall(symbol, callback)
    \/ \E symbol \in NotifySymbols, callback \in FeedCallbacks : UnsubscribeCall(symbol, callback)
    \/ FeedOpReturns

(***************************************************************************)
(* _momentum_signal called on its own, over every combination of votes.    *)
(***************************************************************************)
\* RSI values on both sides of, and on, the two levels
MomentumRsiValues ==
    {rsi_oversold - 5, rsi_oversold, 50, rsi_overbought, rsi_overbought + 5}

\* the latest rows the signal is computed from, and a frame without rows
MomentumFrames ==
    [kind : {"frame"}, rows : {0, 30}, rsi : MomentumRsiValues,
     macd_above : BOOLEAN, close_above : BOOLEAN]

\* risk levels 0.0, 0.1 .. 1.0, in tenths
MomentumRiskLevels == 0..10

\* one call of _momentum_signal
MomentumCall(features, risk_level) ==
    /\ ms_last = NoCall
    /\ ms_last' = [kind |-> "call", features |-> features, risk_level |-> risk_level,
                   outcome |-> MomentumSignal(features, risk_level)]
    /\ UNCHANGED OutsideMomentum

\* the caller has its signal
MomentumAnswered ==
    /\ ms_last # NoCall
    /\ ms_last' = NoCall
    /\ UNCHANGED OutsideMomentum

InitMomentum == ms_last = NoCall

NextMomentum ==
    \/ \E features \in MomentumFrames, risk_level \in MomentumRiskLevels :
          MomentumCall(features, risk_level)
    \/ MomentumAnswered

(***************************************************************************)
(* IndianMarketService.get_real_time_data.                                 *)
(***************************************************************************)
\* self.indian_companies[symbol]['name']
CompanyName(symbol) ==
    IF symbol = "RELIANCE.NS" THEN "Reliance Industries Ltd"
    ELSE "Tata Consultancy Services"

\* the symbol lists of the calls; the second is the default, every company
IndianSymbolLists ==
    {<< >>, <<"RELIANCE.NS", "TCS.NS">>, <<"TCS.NS">>,
     <<"TCS.NS", "RELIANCE.NS">>, <<"RELIANCE.NS", "UNLISTED.NS">>,
     <<"UNLISTED.NS", "TCS.NS">>}

IndianSymbols == {"RELIANCE.NS", "TCS.NS", "UNLISTED.NS"}

\* the environment of one call: whether yf.Tickers raises, and for each
\* symbol whether its fetch gives a history, an empty history, or raises
IndianEnvs ==
    [tickers : {"ok", "raise"}, fetch : [IndianSymbols -> {"data", "empty", "raise"}]]

\* the IndianStock built from the provider's answer
RealStock(symbol) ==
    [source |-> "provider", symbol |-> symbol, name |-> CompanyName(symbol)]

\* _get_fallback_data: the first draw is made, then the company is looked up
\* (KeyError for a symbol that is not listed), then the other draws
FallbackData(symbol, rng) ==
    IF symbol \notin indian_companies
    THEN [kind |-> "raise", rng |-> NpRandomAdvance(rng, 1)]
    ELSE [kind |-> "stock",
          stock |-> [source |-> "fallback", symbol |-> symbol,
                     name |-> CompanyName(symbol)],
          rng |-> NpRandomAdvance(rng, fallback_quote_draws)]

\* the handler of the outer try: fallback data for all symbols, in order; an
\* exception raised here leaves get_real_time_data
RECURSIVE FallbackForAll(_, _, _, _)
FallbackForAll(symbols, k, stocks_data, rng) ==
    IF k > Len(symbols) THEN [kind |-> "done", stocks_data |-> stocks_data, rng |-> rng]
    ELSE LET made == FallbackData(symbols[k], rng)
         IN  IF made.kind = "raise"
             THEN [kind |-> "raise", stocks_data |-> stocks_data, rng |-> made.rng]
             ELSE FallbackForAll(symbols, k + 1,
                                 SetKey(stocks_data, symbols[k], made.stock), made.rng)

\* for symbol in symbols: the inner try.  An empty history stores nothing; a
\* history stores the stock (KeyError for a symbol that is not listed); an
\* exception goes to the inner handler, which stores fallback data, and what
\* the handler itself raises goes to the outer one
RECURSIVE FetchEach(_, _, _, _, _)
FetchEach(symbols, k, stocks_data, rng, env) ==
    IF k > Len(symbols) THEN [kind |-> "done", stocks_data |-> stocks_data, rng |-> rng]
    ELSE LET symbol == symbols[k]
             built == /\ env.fetch[symbol] = "data"
                      /\ symbol \in indian_companies
         IN  IF env.fetch[symbol] = "empty"
             THEN FetchEach(symbols, k + 1, stocks_data, rng, env)
             ELSE IF built
             THEN FetchEach(symbols, k + 1,
                            SetKey(stocks_data, symbol, RealStock(symbol)), rng, env)
             ELSE LET made == FallbackData(symbol, rng)
                  IN  IF made.kind = "raise"
                      THEN [kind |-> "raise", stocks_data |-> stocks_data,
                            rng |-> made.rng]
                      ELSE FetchEach(symbols, k + 1,
                                     SetKey(stocks_data, symbol, made.stock),
                                     made.rng, env)

\* get_real_time_data: [kind, stocks_data, rng]
RealTimeData(symbols, env, rng) ==
    LET looped == IF env.tickers = "raise"
                  THEN [kind |-> "raise", stocks_data |-> EmptyMap, rng |-> rng]
                  ELSE FetchEach(symbols, 1, EmptyMap, rng, env)
        handled == FallbackForAll(symbols, 1, looped.stocks_data, looped.rng)
    IN  IF looped.kind = "done"
        THEN [kind |-> "return", stocks_data |-> looped.stocks_data, rng |-> looped.rng]
        ELSE IF handled.kind = "done"
        THEN [kind |-> "return", stocks_data |-> handled.stocks_data, rng |-> handled.rng]
        ELSE [kind |-> "raise", stocks_data |-> EmptyMap, rng |-> handled.rng]

\* one call of get_real_time_data
GetRealTimeData(symbols, env) ==
    /\ im_last = NoCall
    /\ np_random.drawn < MaxDraws * fallback_quote_draws
    /\ LET r == RealTimeData(symbols, env, np_random)
       IN  /\ np_random' = r.rng
           /\ im_last' = [kind |-> "call", symbols |-> symbols, env |-> env,
                          outcome |-> [kind |-> r.kind, stocks_data |-> r.stocks_data]]
    /\ UNCHANGED OutsideIndian

\* the caller has its answer
RealTimeDataAnswered ==
    /\ im_last # NoCall
    /\ im_last' = NoCall
    /\ UNCHANGED np_random
    /\ UNCHANGED OutsideIndian

InitIndian == im_last = NoCall

NextIndian ==
    \/ \E symbols \in IndianSymbolLists, env \in IndianEnvs : GetRealTimeData(symbols, env)
    \/ RealTimeDataAnswered

InitMarketData ==
    /\ alpha_vantage_key \in BOOLEAN
    /\ polygon_key \in BOOLEAN
    /\ redis_quotes = EmptyMap

\* a market-data service with no optional provider configured
InitMarketDataPlain ==
    /\ alpha_vantage_key = FALSE
    /\ polygon_key = FALSE
    /\ redis_quotes = EmptyMap

InitBatch ==
    /\ bq_pc = "idle"
    /\ bq_symbols = << >>
    /\ bq_i = 0
    /\ bq_tasks = << >>
    /\ bq_quotes = EmptyMap
    /\ bq_started = {}
    /\ bq_finished = {}
    /\ bq_returned = {}
    /\ bq_sleeps = 0
    /\ bq_failed = {}

InitServices ==
    /\ InitLoop
    /\ InitHist
    /\ InitOpt
    /\ InitVar
    /\ InitSimple
    /\ InitStress
    /\ InitHistVar
    /\ InitMonteCarlo
    /\ InitHrp
    /\ InitSignals
    /\ InitQuote
    /\ InitFeed
    /\ InitMomentum
    /\ InitIndian

Init ==
    /\ InitMarketData
    /\ InitBatch
    /\ InitBacktest
    /\ InitServices

\* the services other than the market-data service start from one state
InitPlain ==
    /\ InitMarketDataPlain
    /\ InitBatch
    /\ InitBacktest
    /\ InitServices

NextBatch ==
    \/ \E n \in 0..MaxSymbols : GetBatchQuotes(SymbolList(n))
    \/ FetchStart
    \/ \E r \in FetchOutcomes(CurrentSymbol) : FetchReturn(r)
    \/ AfterGather
    \/ AfterSleep

SpecBatch == Init /\ [][NextBatch]_vars

SpecBacktest == InitPlain /\ [][NextBacktest]_vars

SpecLoop == InitPlain /\ [][NextLoop]_vars

SpecHist == InitPlain /\ [][NextHist]_vars

SpecOpt == InitPlain /\ [][NextOpt]_vars

SpecVar == InitPlain /\ [][NextVar]_vars

SpecSimple == InitPlain /\ [][NextSimple]_vars

SpecStress == InitPlain /\ [][NextStress]_vars

SpecHistVar == InitPlain /\ [][NextHistVar]_vars

SpecMonteCarlo == InitPlain /\ [][NextMonteCarlo]_vars

SpecHrp == InitPlain /\ [][NextHrp]_vars

SpecSignals == InitPlain /\ [][NextSignals]_vars

SpecQuote == Init /\ [][NextQuote]_vars

SpecFeed == InitPlain /\ [][NextFeed]_vars

SpecSubscribers == InitPlain /\ [][NextSubscribers]_vars

SpecMomentum == InitPlain /\ [][NextMomentum]_vars

SpecIndian == InitPlain /\ [][NextIndian]_vars

(***************************************************************************)
(* Claims about get_batch_quotes.                                          *)
(***************************************************************************)
\* the group (0, 1, ...) of the symbol at position p (1, 2, ...)
GroupOf(p) == (p - 1) \div batch_size

\* the number of groups of a list of n symbols
Groups(n) == (n + batch_size - 1) \div batch_size

\* C1: when get_batch_quotes returns, every requested symbol has been fetched,
\* and the keys of the returned map are exactly the requested symbols for which
\* a fetch returned a Quote (each mapped to a Quote of that symbol); a fetch
\* that raised or gave None leaves every other symbol's quote in the map
C1_BatchKeysAreReturnedQuotes ==
    bq_pc = "done" =>
        /\ bq_finished = 1..Len(bq_symbols)
        /\ DOMAIN bq_quotes = bq_returned
        /\ \A s \in DOMAIN bq_quotes : bq_quotes[s] = Quote(s)
        /\ \A p \in 1..Len(bq_symbols) :
              p \notin bq_failed => bq_symbols[p] \in DOMAIN bq_quotes

\* a fetch of the first batch failed, its symbol is omitted, and the symbol of
\* the second batch is returned all the same
C1_Witness ==
    /\ bq_pc = "done"
    /\ Len(bq_symbols) > batch_size
    /\ \E p \in bq_failed : p <= batch_size
    /\ bq_symbols[Len(bq_symbols)] \in DOMAIN bq_quotes

\* C2: at most batch_size (10) fetches of a call are in flight; the tasks of a
\* batch are the next at most 10 symbols in input order; no fetch starts before
\* every fetch of the earlier groups has finished; the rate-limit delay is
\* taken between two groups and never after the last one
C2_BatchesOfTenInOrder ==
    /\ Cardinality(bq_started \ bq_finished) <= batch_size
    /\ Cardinality({k \in 1..Len(bq_tasks) : bq_tasks[k].state # "done"}) <= batch_size
    /\ Len(bq_tasks) <= batch_size
    /\ bq_i % batch_size = 0
    /\ \A k \in 1..Len(bq_tasks) : bq_tasks[k].symbol = bq_symbols[bq_i + k]
    /\ bq_pc = "gather" =>
          Len(bq_tasks) = Min(batch_size, Len(bq_symbols) - bq_i)
    /\ \A p \in bq_started : \A q \in 1..Len(bq_symbols) :
          GroupOf(q) < GroupOf(p) => q \in bq_finished
    /\ bq_pc = "sleep" => bq_i + batch_size < Len(bq_symbols)
    /\ bq_pc = "gather" => bq_sleeps = GroupOf(bq_i + 1)
    /\ bq_pc = "done" /\ Len(bq_symbols) > 0 =>
          bq_sleeps = Groups(Len(bq_symbols)) - 1

\* a call with two groups has finished: one delay, taken between them
C2_Witness ==
    /\ bq_pc = "done"
    /\ Groups(Len(bq_symbols)) = 2
    /\ bq_sleeps = 1
    /\ bq_finished = 1..Len(bq_symbols)

(***************************************************************************)
(* Claims about the backtest result cache.                                 *)
(***************************************************************************)
\* C3: every backtest_id a run returned is a key of results_cache and maps, for
\* good, to the record of that run (nothing is overwritten or evicted by later
\* calls); get_backtest_results gives that record for such an id and fails with
\* "not found" for an id no run returned
C3_CachedRecordsArePermanent ==
    /\ \A id \in DOMAIN bt_returned :
          id \in DOMAIN results_cache /\ results_cache[id] = bt_returned[id]
    /\ bt_get.kind = "found" =>
          bt_get.returned /\ bt_get.record = bt_returned[bt_get.id]
    /\ bt_get.kind = "not_found" => ~bt_get.returned

\* the first run's record is read back after a later, different run was cached
C3_Witness ==
    /\ bt_get.kind = "found"
    /\ bt_get.id = 1
    /\ {1, 2} \subseteq DOMAIN results_cache
    /\ results_cache[1] # results_cache[2]

\* C4: run_backtest calls interleaved at their awaits lose no cache write: the
\* cache holds one entry per run that returned, and the entry of each finished
\* request is made of that request's own results and parameters
C4_InterleavedRunsKeepTheirEntries ==
    /\ Cardinality(DOMAIN results_cache) = bt_completed
    /\ \A r \in Requests :
          bt_req[r].pc = "completed" =>
              /\ bt_req[r].backtest_id \in DOMAIN results_cache
              /\ results_cache[bt_req[r].backtest_id] = BacktestRecord(bt_req[r])
    /\ \A r, o \in Requests :
          (r # o /\ bt_req[r].pc # "idle" /\ bt_req[o].pc # "idle") =>
              bt_req[r].backtest_id # bt_req[o].backtest_id

\* two runs with different results were in progress together and both returned
C4_Witness ==
    /\ bt_interleaved
    /\ \A r \in {1, 2} : bt_req[r].pc = "completed" /\ Len(bt_req[r].symbols) = 2
    /\ bt_req[1].results # bt_req[2].results

(***************************************************************************)
(* Claim about the event loop.                                             *)
(***************************************************************************)
\* C5: a hung provider call blocks only the task that issued it: while a task
\* sits in a call that does not return, every other task that is ready to run
\* (a request handler, a feed loop whose sleep is over) can be run by the loop
C5_HungCallBlocksOnlyItsTask ==
    \A t \in Tasks :
        (el_thread = t /\ el_tasks[t] = "in_call" /\ el_hung) =>
            \A o \in Tasks \ {t} : el_tasks[o] = "ready" => ENABLED TaskRuns(o)

(***************************************************************************)
(* Claim about the historical-data cache.                                  *)
(***************************************************************************)
\* C6: a successful get_historical_data leaves its frame under the key of its
\* symbol, period and interval; a call whose key is cached (and not expired)
\* returns the cached frame without contacting the provider; a call whose key
\* is not cached (never fetched, or expired) contacts the provider; and the
\* frame a call returns is one fetched for its own symbol, period and interval
C6_HistoricalCacheServesRepeatedCalls ==
    (hd_last.kind # "none" /\ hd_last.redis_up) =>
        /\ hd_last.cached_before =>
              /\ hd_last.kind = "return"
              /\ hd_last.data = hd_last.cached_data
              /\ ~hd_last.contacted
        /\ ~hd_last.cached_before => hd_last.contacted
        /\ hd_last.kind = "return" =>
              /\ hd_last.data.symbol = hd_last.symbol
              /\ hd_last.data.period = hd_last.period
              /\ hd_last.data.interval = hd_last.interval
        /\ (hd_last.kind = "return" /\ hd_last.contacted) =>
              LET key == HistKey(hd_last.symbol, hd_last.period, hd_last.interval)
              IN  /\ key \in DOMAIN redis_hist
                  /\ redis_hist[key] = Pickled(hd_last.data, hist_ttl)

(***************************************************************************)
(* Claims about optimize_portfolio.                                        *)
(***************************************************************************)
\* C7 (as stated): optimize_portfolio with a method that is not one of the four
\* known ones fails with the 'Unknown optimization method' error
C7_UnknownMethodAlwaysNamed ==
    (po_last.kind = "call" /\ po_last.method \notin KnownMethods) =>
        /\ po_last.outcome.kind = "raise"
        /\ po_last.outcome.error = "Unknown optimization method"

\* C7 (amended): optimize_portfolio with a method that is not one of the four
\* known ones always fails and returns no weights (no other method is run in
\* its place); the error is 'Unknown optimization method' when the price data
\* was fetched, and the error of the price-data fetch when that fetch failed
C7_UnknownMethodNeverOptimizes ==
    (po_last.kind = "call" /\ po_last.method \notin KnownMethods) =>
        /\ po_last.outcome.kind = "raise"
        /\ po_last.price_data.kind = "frame" =>
              po_last.outcome.error = "Unknown optimization method"
        /\ po_last.price_data.kind = "raise" =>
              po_last.outcome = po_last.price_data

\* an unknown method was rejected by name after the prices were fetched
C7_Witness ==
    /\ po_last.kind = "call"
    /\ po_last.method \notin KnownMethods
    /\ po_last.price_data.kind = "frame"
    /\ po_last.price_data.rows >= min_var_observations
    /\ po_last.outcome = Raised("Unknown optimization method")

\* C8: mean-variance optimisation (and optimize_portfolio through it) returns
\* no weights for an objective other than max_sharpe, min_volatility,
\* max_return and efficient_risk: the call fails
C8_UnknownObjectiveFailsFast ==
    (/\ po_last.kind = "call"
     /\ po_last.method = "mean_variance"
     /\ po_last.objective \notin KnownObjectives) =>
        po_last.outcome.kind = "raise"

\* C10: optimize_portfolio, for each of its methods, given a price history of
\* fewer observations than the minimum (the one the repository states: the 30
\* of calculate_var), fails with an insufficient-data error and returns no
\* weights
C10_ShortHistoryIsRejected ==
    (/\ po_last.kind = "call"
     /\ po_last.method \in KnownMethods
     /\ po_last.price_data.kind = "frame"
     /\ po_last.price_data.rows < min_var_observations) =>
        /\ po_last.outcome.kind = "raise"
        /\ po_last.outcome.error = "Insufficient data"

\* C14: every optimize_portfolio call that returns, for each supported method,
\* gives the weights together with the portfolio metrics (annual return,
\* volatility, Sharpe ratio): a failure of the metrics computation is never
\* hidden behind a result without them
C14_ReturnedResultHasMetrics ==
    (/\ po_last.kind = "call"
     /\ po_last.method \in KnownMethods
     /\ po_last.outcome.kind = "result") =>
        /\ po_last.outcome.weights.solved_by # ""
        /\ po_last.outcome.metrics

(***************************************************************************)
(* Claim about calculate_var.                                              *)
(***************************************************************************)
\* C9: calculate_var, for every method string, raises 'Insufficient data for
\* VaR calculation' and returns no VaR exactly when the return series is
\* unavailable (the fetch failed) or has fewer than 30 observations; with 30
\* or more observations that error is never raised
C9_InsufficientDataIffShortSeries ==
    rm_last.kind = "call" =>
        LET short == \/ rm_last.returns.kind = "None"
                     \/ rm_last.returns.len < min_var_observations
            refused == rm_last.outcome = Raised("Insufficient data for VaR calculation")
        IN  /\ short <=> refused
            /\ refused => rm_last.outcome.kind # "result"

\* a series one observation short of the minimum was refused, under a method
\* string calculate_var does not know
C9_Witness ==
    /\ rm_last.kind = "call"
    /\ rm_last.method \notin var_methods
    /\ rm_last.returns.kind = "series"
    /\ rm_last.returns.len = min_var_observations - 1
    /\ rm_last.outcome = Raised("Insufficient data for VaR calculation")

\* C11: when the GARCH fit or forecast raises, calculate_var(method='garch')
\* ends as calculate_var(method='parametric') does on the same returns,
\* confidence level and horizon: the same error, or a result with the same var
\* and the same details (those of _parametric_var)
C11_GarchFallbackEqualsParametric ==
    (rm_last.kind = "call" /\ rm_last.method = "garch" /\ rm_last.env.garch = "raise") =>
        LET parametric == CalculateVarResult("parametric", rm_last.confidence_level,
                                             rm_last.time_horizon, rm_last.env)
        IN  /\ rm_last.outcome.kind = parametric.kind
            /\ rm_last.outcome.kind = "result" =>
                  /\ rm_last.outcome.var = parametric.var
                  /\ rm_last.outcome.details = parametric.details
                  /\ rm_last.outcome.var.computed_by = "parametric"

\* a garch call on a long enough series whose fit raised returned a result
C11_Witness ==
    /\ rm_last.kind = "call"
    /\ rm_last.method = "garch"
    /\ rm_last.env.garch = "raise"
    /\ rm_last.outcome.kind = "result"
    /\ rm_last.returns.len >= min_var_observations

\* C12: when calculate_var with method 'garch' falls back to the parametric
\* method, the result tells the caller so: it differs from the result of a
\* successful fit, and its 'method' does not call it a GARCH estimate
C12_GarchFallbackIsReported ==
    (/\ rm_last.kind = "call"
     /\ rm_last.method = "garch"
     /\ rm_last.env.garch = "raise"
     /\ rm_last.outcome.kind = "result") =>
        /\ rm_last.outcome #
              CalculateVarResult("garch", rm_last.confidence_level, rm_last.time_horizon,
                                 [rm_last.env EXCEPT !.garch = "fit"])
        /\ rm_last.outcome.method # "garch"

(***************************************************************************)
(* Claim about the simplified service.                                     *)
(***************************************************************************)
\* C13: a quote, historical-data or company-details request for a symbol with
\* no data (empty provider history, unknown company) is answered with HTTP
\* 404, and a request that met an unexpected error with HTTP 500
C13_NoDataIsNotFound ==
    sm_last.kind = "request" =>
        /\ sm_last.no_data => sm_last.status = 404
        /\ sm_last.unexpected => sm_last.status = 500

(***************************************************************************)
(* Claim about stress_test_portfolio.                                      *)
(***************************************************************************)
\* C15: the summary of a stress test covers every scenario evaluated (the
\* historical one, the four crashes, the interest-rate one, the correlation
\* breakdown and each custom one): scenarios_tested is 7 plus the number of
\* custom scenarios, worst_case_loss is the smallest scenario loss,
\* average_loss their mean, losses_exceeding_10pct the number below -0.1
C15_SummaryCoversEveryScenario ==
    (st_last.kind = "call" /\ st_last.outcome.kind = "result") =>
        LET losses == st_last.outcome.all_losses
            summary == st_last.outcome.summary
            numbers == {k \in 1..Len(losses) : ~losses[k].nan}
        IN  /\ summary.scenarios_tested = 7 + Len(st_last.scenarios)
            /\ Len(losses) = summary.scenarios_tested
            /\ \E k \in numbers : summary.worst_case_loss = losses[k]
            /\ \A k \in numbers : summary.worst_case_loss.v <= losses[k].v
            /\ summary.average_loss.count = summary.scenarios_tested
            /\ summary.average_loss.sum = SumFloats(losses, 1)
            /\ summary.losses_exceeding_10pct =
                  Cardinality({k \in numbers : losses[k].v < severe_loss})

(***************************************************************************)
(* Claims about _historical_var.  The empirical percentile is stated from  *)
(* ranks: the j-th smallest value is the one with fewer than j values      *)
(* below it and at least j values not above it.                            *)
(***************************************************************************)
OrderStatistic(values, j) ==
    CHOOSE v \in Range(values) :
        /\ Cardinality({k \in 1..Len(values) : values[k] < v}) < j
        /\ Cardinality({k \in 1..Len(values) : values[k] <= v}) >= j

\* thousand times the q-thousandths percentile of the values
EmpiricalPercentile(values, q) ==
    LET n == Len(values)
        below == (q * (n - 1)) \div 1000
        lower == OrderStatistic(values, below + 1)
        upper == OrderStatistic(values, Min(below + 2, n))
    IN  1000 * lower + (q * (n - 1) - 1000 * below) * (upper - lower)

\* the returns of the last call, scaled by sqrt(h)
C16_ScaledReturns ==
    [k \in 1..Len(hv_last.returns) |->
        hv_last.returns[k] * (CHOOSE r \in 0..hv_last.time_horizon :
                                 r * r = hv_last.time_horizon)]

\* C16 (as stated): the historical VaR is exactly the (1-c) empirical
\* percentile of the returns scaled by sqrt(h)
C16_VarIsThePercentile ==
    hv_last.kind = "call" =>
        hv_last.outcome.var =
            EmpiricalPercentile(C16_ScaledReturns, 1000 - hv_last.confidence_level)

\* C16 (amended): the historical VaR is exactly the absolute value of the
\* (1-c) empirical percentile of the returns scaled by sqrt(h)
C16_VarIsThePercentileMagnitude ==
    hv_last.kind = "call" =>
        LET percentile == EmpiricalPercentile(C16_ScaledReturns,
                                              1000 - hv_last.confidence_level)
        IN  hv_last.outcome.var = IF percentile < 0 THEN -percentile ELSE percentile

C16_Witness ==
    /\ hv_last.kind = "call"
    /\ Len(hv_last.returns) >= 3
    /\ hv_last.time_horizon = 4
    /\ hv_last.confidence_level = 950
    /\ EmpiricalPercentile(C16_ScaledReturns, 1000 - hv_last.confidence_level) < 0
    /\ hv_last.outcome.var # 1000 * hv_last.outcome.details.worst_loss
    /\ hv_last.outcome.var # -1000 * hv_last.outcome.details.worst_loss

(***************************************************************************)
(* Claim about _monte_carlo_var.                                           *)
(***************************************************************************)
\* C17: two Monte Carlo VaR computations on the same returns, confidence
\* level and horizon give the same result, whatever was drawn from the
\* random generator between them
C17_MonteCarloIsReproducible ==
    (/\ mc_first.kind = "call"
     /\ mc_last.kind = "call"
     /\ mc_first.returns = mc_last.returns
     /\ mc_first.confidence_level = mc_last.confidence_level
     /\ mc_first.time_horizon = mc_last.time_horizon) =>
        mc_first.outcome = mc_last.outcome

\* the same computation twice, a fallback quote having drawn in between
C17_Witness ==
    /\ mc_first.kind = "call"
    /\ mc_last.kind = "call"
    /\ mc_first.returns = mc_last.returns
    /\ mc_first.confidence_level = mc_last.confidence_level
    /\ mc_first.time_horizon = mc_last.time_horizon
    /\ ~mc_first.rng_before.seeded
    /\ mc_last.rng_before.seeded
    /\ mc_last.rng_before.drawn > n_simulations

C19_HrpIgnoresColumnOrder ==
    hrp_last.kind = "call" =>
        \A columns \in HrpColumns :
            (Range(columns) = Range(hrp_last.columns) /\ columns # hrp_last.columns) =>
                \A cluster_order \in ClusterOrders(hrp_last.market, columns) :
                    CalculateHrpWeights(hrp_last.market, columns, cluster_order)
                        = hrp_last.outcome.weights

(***************************************************************************)
(* Claims about generate_trading_signals.                                  *)
(***************************************************************************)
\* C20 (as stated): a call with an unrecognised strategy_type does not raise
\* and gives each symbol the signal _momentum_signal gives for the same
\* features and risk level
C20_UnknownStrategyIsMomentum ==
    (ts_last.kind = "call" /\ ts_last.strategy_type \notin known_strategies) =>
        /\ ts_last.outcome.kind = "result"
        /\ \A s \in DOMAIN ts_last.outcome.signals :
              ts_last.outcome.signals[s]
                  = MomentumSignal(ts_last.env.features[s], ts_last.risk_level)

\* C20 (amended): a call with an unrecognised strategy_type is not rejected
\* for it: it raises or returns exactly as the same call with "ml_ensemble"
\* does, each symbol getting the signal _ml_ensemble_signal gives, and
\* trains the same models
C20_UnknownStrategyIsMlEnsemble ==
    (ts_last.kind = "call" /\ ts_last.strategy_type \notin known_strategies) =>
        LET ensemble == GenerateTradingSignalsResult(ts_last.symbols, "ml_ensemble",
                            ts_last.risk_level, ts_last.env, ts_last.cache_before)
        IN  /\ ts_last.outcome.kind = ensemble.kind
            /\ ts_last.outcome.cache = ensemble.cache
            /\ ts_last.outcome.kind = "result" =>
                  /\ ts_last.outcome.signals = ensemble.signals
                  /\ ts_last.outcome.strategy_type = ts_last.strategy_type
            /\ ts_last.outcome.kind = "raise" =>
                  ts_last.outcome.error = ensemble.error

\* an unrecognised strategy answered by the trained ensemble, not by momentum
C20_Witness ==
    /\ ts_last.kind = "call"
    /\ ts_last.strategy_type \notin known_strategies
    /\ ts_last.outcome.kind = "result"
    /\ \E s \in DOMAIN ts_last.outcome.signals :
          /\ "model_type" \in DOMAIN ts_last.outcome.signals[s]
          /\ ts_last.outcome.signals[s]
                # MomentumSignal(ts_last.env.features[s], ts_last.risk_level)

\* C21: the trained-model cache is consistent and write-once per symbol: a
\* symbol is in models exactly when it is in scalers, both entries come from
\* the same training run, that run is the only one ever stored for the
\* symbol, and a request leaves the entries it found as they were
C21_ModelCacheIsConsistentAndWriteOnce ==
    /\ DOMAIN ai_models = DOMAIN ai_scalers
    /\ \A s \in DOMAIN ai_models \cap DOMAIN ai_scalers :
          ai_models[s] = ai_scalers[s] /\ ai_models[s] = 1
    /\ ts_last.kind = "call" =>
          \A s \in DOMAIN ts_last.cache_before.models :
              /\ s \in DOMAIN ai_models
              /\ ai_models[s] = ts_last.cache_before.models[s]

\* a request for a symbol trained by an earlier request, answered by the
\* ensemble, in an environment where a new training would have succeeded
C21_Witness ==
    /\ ts_last.kind = "call"
    /\ ts_last.strategy_type = "ml_ensemble"
    /\ ts_last.env.train = "ok"
    /\ ts_last.outcome.kind = "result"
    /\ \E s \in DOMAIN ts_last.cache_before.models :
          /\ s \in DOMAIN ts_last.outcome.signals
          /\ "model_type" \in DOMAIN ts_last.outcome.signals[s]

(***************************************************************************)
(* Claims about get_real_time_quote and its cache.                         *)
(***************************************************************************)
\* the call being answered repeats the symbol string of the call before it,
\* which got its quote from a provider and cached it; the key is still in
\* redis, redis answers and the cached quote is younger than 60 seconds
C22_RepeatedInsideWindow ==
    /\ gq_last # NoCall
    /\ gq_prev # NoCall
    /\ gq_prev.symbol = gq_last.symbol
    /\ gq_prev.result.kind = "Quote"
    /\ gq_prev.tried # << >>
    /\ QuoteKey(gq_prev.result.quote.symbol) \in DOMAIN gq_prev.store
    /\ gq_last.store_before = gq_prev.store
    /\ gq_last.env.redisUp
    /\ ~gq_last.env.escapes
    /\ IsQuoteFresh(gq_last.env.age)

\* C22: a get_real_time_quote(s) that follows, inside the 60-second freshness
\* window, a get_real_time_quote(s) with the same string that obtained a quote
\* from a provider and cached it returns the cached quote without contacting
\* any provider
C22_SecondCallIsServedFromCache ==
    C22_RepeatedInsideWindow =>
        /\ gq_last.result = gq_prev.result
        /\ gq_last.tried = << >>

\* what the sources consulted by the call being answered gave, in order
C23_Answers ==
    [k \in 1..Len(gq_last.tried) |->
        CASE gq_last.tried[k] = "yahoo" -> gq_last.env.yahoo
          [] gq_last.tried[k] = "alpha_vantage" -> gq_last.env.av
          [] gq_last.tried[k] = "polygon" -> gq_last.env.polygon]

\* the call being answered returned the fresh quote it found in the cache
C23_ServedFromCache ==
    /\ QuoteKey(gq_last.symbol) \in DOMAIN gq_last.store_before
    /\ gq_last.result = QuoteResult(gq_last.store_before[QuoteKey(gq_last.symbol)])
    /\ gq_last.tried = << >>

\* C23: a get_real_time_quote that is not cut short either returns the fresh
\* cached quote and asks no provider, or asks Yahoo first, Alpha Vantage only
\* if it is configured and Yahoo gave nothing, Polygon only if it is configured
\* and the ones before gave nothing; it stops at the first quote, writes the
\* cache only when it obtained a quote from a provider (under that quote's
\* key), and returns no quote, without raising, when every source failed
C23_SourcesInFixedOrder ==
    (gq_last # NoCall /\ ~gq_last.env.escapes) =>
        \/ /\ C23_ServedFromCache
           /\ redis_quotes = gq_last.store_before
        \/ /\ gq_last.tried \in
                  {<<"yahoo">>, <<"yahoo", "alpha_vantage">>, <<"yahoo", "polygon">>,
                   <<"yahoo", "alpha_vantage", "polygon">>}
           /\ ("alpha_vantage" \in Range(gq_last.tried)) =
                  (alpha_vantage_key /\ gq_last.env.yahoo = "none")
           /\ ("polygon" \in Range(gq_last.tried)) =
                  /\ polygon_key
                  /\ gq_last.env.yahoo = "none"
                  /\ "alpha_vantage" \in Range(gq_last.tried) => gq_last.env.av = "none"
           /\ \A k \in 1..(Len(gq_last.tried) - 1) : C23_Answers[k] = "none"
           /\ gq_last.result.kind \in {"Quote", "None"}
           /\ (gq_last.result.kind = "Quote") =
                  (C23_Answers[Len(gq_last.tried)] = "quote")
           /\ gq_last.result.kind = "None" => redis_quotes = gq_last.store_before
           /\ gq_last.result.kind = "Quote" =>
                  /\ \A key \in DOMAIN redis_quotes \cup DOMAIN gq_last.store_before :
                         key # QuoteKey(gq_last.result.quote.symbol) =>
                             /\ key \in DOMAIN redis_quotes \cap DOMAIN gq_last.store_before
                             /\ redis_quotes[key] = gq_last.store_before[key]
                  /\ gq_last.env.redisUp =>
                         /\ QuoteKey(gq_last.result.quote.symbol) \in DOMAIN redis_quotes
                         /\ redis_quotes[QuoteKey(gq_last.result.quote.symbol)] =
                                gq_last.result.quote

\* every configured source is asked in turn, fails, and the call returns None
C23_Witness ==
    /\ gq_last # NoCall
    /\ gq_last.tried = <<"yahoo", "alpha_vantage", "polygon">>
    /\ gq_last.result = NoQuote
    /\ gq_prev # NoCall
    /\ gq_prev.tried = <<"yahoo", "alpha_vantage">>
    /\ gq_prev.result.kind = "Quote"

(***************************************************************************)
(* Claims about the feed loops and the subscribers.                        *)
(***************************************************************************)
\* C24: at the end of a polling cycle every callback that was subscribed to a
\* symbol when the cycle began, stayed subscribed throughout, and whose symbol
\* got a quote has been invoked exactly once, whatever the other callbacks did
\* (raised, unsubscribed themselves or another callback)
C24_EverySubscriberNotifiedOnce ==
    fd_pc = "cycle_done" =>
        \A p \in fd_stable :
            p[1] \in fd_obtained =>
                /\ p \in DOMAIN fd_invoked
                /\ fd_invoked[p] = 1

\* the registrations of a callback for a symbol
C25_Registrations(subs, symbol, callback) ==
    IF symbol \in DOMAIN subs THEN Count(subs[symbol], callback) ELSE 0

\* C25: no symbol of the subscribers map has an empty callback list; an
\* unsubscribe of a callback that is not registered for the symbol (or of a
\* symbol without subscribers) leaves the map as it was, and any other
\* unsubscribe removes one registration of that callback for that symbol and
\* nothing else
C25_SubscribersStayWellFormed ==
    /\ \A s \in DOMAIN subscribers : subscribers[s] # << >>
    /\ (fd_op # NoCall /\ fd_op.op = "unsubscribe") =>
          /\ C25_Registrations(fd_op.before, fd_op.symbol, fd_op.callback) = 0 =>
                subscribers = fd_op.before
          /\ C25_Registrations(fd_op.before, fd_op.symbol, fd_op.callback) > 0 =>
                \A s \in NotifySymbols, cb \in FeedCallbacks :
                    C25_Registrations(subscribers, s, cb) =
                        C25_Registrations(fd_op.before, s, cb)
                            - (IF s = fd_op.symbol /\ cb = fd_op.callback THEN 1 ELSE 0)

\* a callback registered twice is unsubscribed once, and the last callback of
\* another symbol has been unsubscribed before
C25_Witness ==
    /\ fd_op # NoCall
    /\ fd_op.op = "unsubscribe"
    /\ C25_Registrations(fd_op.before, fd_op.symbol, fd_op.callback) = 2
    /\ C25_Registrations(subscribers, fd_op.symbol, fd_op.callback) = 1
    /\ DOMAIN subscribers = {fd_op.symbol}

C27_Votes ==
    (IF ms_last.features.rsi > 70 THEN 1 ELSE IF ms_last.features.rsi < 30 THEN -1 ELSE 0)
        + (IF ms_last.features.macd_above THEN 1 ELSE -1)
        + (IF ms_last.features.close_above THEN 1 ELSE -1)

C28_FailedRunLeftNothing ==
    \A r \in Requests :
        /\ bt_req[r].pc = "failed" =>
              /\ bt_req[r].backtest_id \notin DOMAIN results_cache
              /\ bt_req[r].backtest_id \notin DOMAIN bt_returned
              /\ bt_req[r].strategy \notin DOMAIN strategies =>
                    bt_req[r].done = 0 /\ bt_req[r].results = EmptyMap
        /\ bt_req[r].pc = "running" => bt_req[r].strategy \in DOMAIN strategies

\* the step in which run_backtest fails changes neither results_cache nor the
\* ids returned, and an unknown strategy fails in the step of the call itself
C28_FailingStep ==
    \A r \in Requests :
        (bt_req[r].pc # "failed" /\ bt_req'[r].pc = "failed") =>
            /\ results_cache' = results_cache
            /\ bt_returned' = bt_returned
            /\ bt_completed' = bt_completed
            /\ bt_req'[r].strategy \notin DOMAIN strategies => bt_req[r].pc = "idle"

\* C28: when run_backtest fails (unknown strategy, or the fetch or strategy run
\* of one symbol raising) results_cache is left as it was, the results of the
\* symbols already processed are never stored and no backtest_id is returned;
\* an unknown strategy is rejected before any market data is fetched
C28_FailedRunChangesNothing ==
    /\ []C28_FailedRunLeftNothing
    /\ [][C28_FailingStep]_vars

\* a run fails on its second symbol while the cache holds another run's record
C28_Witness ==
    \E r \in Requests :
        /\ bt_req[r].pc = "failed"
        /\ bt_req[r].done = 1
        /\ DOMAIN bt_req[r].results # {}
        /\ DOMAIN results_cache # {}

(***************************************************************************)
(* Claim about IndianMarketService.get_real_time_data.                     *)
(***************************************************************************)
\* C29: get_real_time_data returns, with an entry for every requested symbol:
\* fallback data for a symbol whose fetch failed or gave no history, and the
\* provider's data for every symbol whose fetch gave a history, whatever
\* happened to the other symbols
C29_EverySymbolHasAnEntry ==
    im_last # NoCall =>
        /\ im_last.outcome.kind = "return"
        /\ DOMAIN im_last.outcome.stocks_data = Range(im_last.symbols)
        /\ \A s \in DOMAIN im_last.outcome.stocks_data \cap Range(im_last.symbols) :
              /\ im_last.env.fetch[s] \in {"empty", "raise"} =>
                    im_last.outcome.stocks_data[s].source = "fallback"
              /\ (im_last.env.tickers = "ok" /\ im_last.env.fetch[s] = "data") =>
                    im_last.outcome.stocks_data[s].source = "provider"

(***************************************************************************)
(* Claim about the method argument of calculate_var.                       *)
(***************************************************************************)
\* C30: calculate_var with a method string that is none of historical,
\* parametric, monte_carlo and garch ends as the call with 'historical' does
\* on the same inputs (it fails only where that one fails), returns the same
\* var, and echoes the string in 'method'; and the cvar and max_drawdown of a
\* result are those of every other method and time horizon on the same
\* returns and confidence level
C30_UnknownMethodIsHistorical ==
    rm_last.kind = "call" =>
        /\ rm_last.method \notin {"historical", "parametric", "monte_carlo", "garch"} =>
              LET historical == CalculateVarResult("historical", rm_last.confidence_level,
                                                   rm_last.time_horizon, rm_last.env)
              IN  /\ rm_last.outcome.kind = historical.kind
                  /\ rm_last.outcome.kind = "result" =>
                        /\ rm_last.outcome.var = historical.var
                        /\ rm_last.outcome.method = rm_last.method
        /\ rm_last.outcome.kind = "result" =>
              \A m \in VarMethodArgs, h \in TimeHorizons, fit \in {"fit", "raise"} :
                  LET other == CalculateVarResult(m, rm_last.confidence_level, h,
                                                  [rm_last.env EXCEPT !.garch = fit])
                  IN  /\ other.kind = "result"
                      /\ other.cvar = rm_last.outcome.cvar
                      /\ other.max_drawdown = rm_last.outcome.max_drawdown

\* a call with an unknown method and a horizon of several days returned
C30_Witness ==
    /\ rm_last.kind = "call"
    /\ rm_last.method = "cornish_fisher"
    /\ rm_last.time_horizon > 1
    /\ rm_last.outcome.kind = "result"
    /\ rm_last.outcome.method = "cornish_fisher"
    /\ rm_last.outcome.var.computed_by = "historical"

====
